---- MODULE Spec2Model ----
(***************************************************************************)
(* Authorization layer of the hospital platform: token issue / revocation  *)
(* (utils.py, auth_service.py, auth_router.py, redis.py) and permission    *)
(* resolution with its two Redis cache tiers (dependencies.py).            *)
(*                                                                         *)
(* Two specifications share the variables:                                 *)
(*   SpecAuth  - tokens, the jti blocklist (Redis + in-process fallback),  *)
(*               wall-clock time in seconds;                               *)
(*   SpecPerm  - the credential store rows read by get_user_permissions,   *)
(*               the perms / permcheck cache tiers, the permission guard.  *)
(***************************************************************************)
EXTENDS Integers, Sequences, FiniteSets, TLC

(***************************************************************************)
(* Bounds of the model.                                                    *)
(***************************************************************************)
NumUsers == 2
NumHospitals == 2
MaxJti == 4
MaxRaceJti == 6
AuthTickStep == 3600
MaxAuthTime == 3600
FallbackTickStep == 1800
MaxFallbackTime == 5400
NumFallbackJtis == 2
PermTickStep == 50
MaxPermTime == 150
MaxWrites == 2
MaxCacheWrites == 2
MaxInflight == 1
MaxRequests == 2
RequestTickStep == 2000
MaxRequestTime == 4000

(***************************************************************************)
(* Program constants.                                                      *)
(***************************************************************************)
CACHE_TTL == 120
ACCESS_TOKEN_EXPIRY_SECONDS == 4000
JTI_EXPIRY_SECONDS == 3600
JTI_EXPIRY == JTI_EXPIRY_SECONDS
ACCESS_EXPIRE == ACCESS_TOKEN_EXPIRY_SECONDS
REFRESH_EXPIRE == JTI_EXPIRY_SECONDS

Users == 1..NumUsers
Hospitals == 1..NumHospitals
Jtis == 1..MaxJti

\* `hospital_id or 'global'`: None and 0 both select the global key / context.
NoHospital == 0
NoRole == 0

(***************************************************************************)
(* Strings are sequences of one-character strings, so that str.strip() and *)
(* str.lower() are computed and not assumed.                               *)
(***************************************************************************)
LowerOf ==
  [c \in {"A","B","C","D","E","F","G","H","I","J","K","L","M","N","O","P","Q",
          "R","S","T","U","V","W","X","Y","Z"} |->
     CASE c = "A" -> "a" [] c = "B" -> "b" [] c = "C" -> "c" [] c = "D" -> "d"
       [] c = "E" -> "e" [] c = "F" -> "f" [] c = "G" -> "g" [] c = "H" -> "h"
       [] c = "I" -> "i" [] c = "J" -> "j" [] c = "K" -> "k" [] c = "L" -> "l"
       [] c = "M" -> "m" [] c = "N" -> "n" [] c = "O" -> "o" [] c = "P" -> "p"
       [] c = "Q" -> "q" [] c = "R" -> "r" [] c = "S" -> "s" [] c = "T" -> "t"
       [] c = "U" -> "u" [] c = "V" -> "v" [] c = "W" -> "w" [] c = "X" -> "x"
       [] c = "Y" -> "y" [] c = "Z" -> "z"]

Whitespace == {" ", "\t", "\n"}

\* str.lower()
Lower(s) == [i \in 1..Len(s) |-> IF s[i] \in DOMAIN LowerOf THEN LowerOf[s[i]] ELSE s[i]]

RECURSIVE LStrip(_)
LStrip(s) == IF s # <<>> /\ Head(s) \in Whitespace THEN LStrip(Tail(s)) ELSE s

RECURSIVE RStrip(_)
RStrip(s) ==
  IF s # <<>> /\ s[Len(s)] \in Whitespace THEN RStrip(SubSeq(s, 1, Len(s) - 1)) ELSE s

\* str.strip()
Strip(s) == RStrip(LStrip(s))

\* _normalize_perm
NormalizePerm(p) == Lower(Strip(p))

SUPERADMIN == <<"s","u","p","e","r","a","d","m","i","n">>

(***************************************************************************)
(* Reference data of the credential store (role_master, hospital_role).    *)
(***************************************************************************)
RoleIds == {1, 2}
DOCTOR == <<"d","o","c","t","o","r">>
\* role_master.role_name as stored: role 1 is the platform superadmin role
\* (helpers/for_testing.py seeds user 1 with global_role_id 1).
RoleName == [r \in RoleIds |-> IF r = 1 THEN <<"S","u","p","e","r","A","d","m","i","n"," ">> ELSE DOCTOR]

VARIABLES
  now,              \* time.time(), whole seconds
  redisUp,          \* TRUE while calls on _redis_client succeed
  redisJti,         \* Redis keys written by add_jti_to_blocklist: jti -> expiry instant
  memoryBlocklist,  \* _memory_blocklist: jti -> exp_ts
  tokens,           \* tokens issued so far (held by clients)
  nextJti,          \* next unused uuid4
  revoked,          \* history: jtis for which revoke_jti has returned
  loggedOut,        \* history: jtis revoked by /auth/logout
  globalRoleOf,     \* users.global_role_id (NoRole for NULL)
  hospitalUserRoles,\* hospital_user_roles rows: user_id, hospital_id, hospital_role_id, is_active
  userPermissions,  \* user_permissions rows: user_id, permission_name, scope, hospital_id
  hospitalRolePermission, \* hospital_role_permission rows joined with permission_master
  rolePermission,   \* role_permission rows joined with permission_master
  dbUp,             \* TRUE while statements on the database session succeed
  inflight,         \* get_user_permissions calls suspended between the queries and the cache write
  pending,          \* refresh requests suspended between the bearer check and revoke_jti
  exchanged,        \* history: [req, jti] for every refresh request that was given a new pair
  permsCache,       \* Redis keys user:{u}:hospital:{h}:perms -> [value, expiry instant]
  permcheckCache,   \* Redis keys permcheck:user:{u}:hospital:{h}:{required} -> [value, expiry]
  writes,           \* number of store writes so far
  cacheWrites,      \* number of cache entries written so far
  addedGrants,      \* history: grants added and not invalidated yet
  freshGrants,      \* history: grants added, then invalidated, not resolved since
  lastRemoval,      \* history: instant of the last removal from the store (-1: none)
  resp              \* outcome of the step that produced this state

vars == <<now, redisUp, redisJti, memoryBlocklist, tokens, nextJti, revoked,
          loggedOut, globalRoleOf, hospitalUserRoles, userPermissions,
          hospitalRolePermission, rolePermission, dbUp, inflight, pending, exchanged,
          permsCache,
          permcheckCache, writes, cacheWrites, addedGrants, freshGrants, lastRemoval, resp>>

authVars == <<now, redisUp, redisJti, memoryBlocklist, tokens, nextJti, revoked, loggedOut>>
storeVars == <<globalRoleOf, hospitalUserRoles, userPermissions, hospitalRolePermission, rolePermission>>
flightVars == <<dbUp, inflight, pending, exchanged>>
permVars == <<permsCache, permcheckCache, writes, cacheWrites, addedGrants, freshGrants, lastRemoval>>

NoResp == [op |-> "none"]

\* The "global_role" claim: {role_id, role_name}; role_id NoRole stands for a
\* missing / None claim (not a dict).
NoGlobalRole == [role_id |-> NoRole, role_name |-> <<>>]

\* dict[k] = v
Put(f, k, v) == [x \in DOMAIN f \cup {k} |-> IF x = k THEN v ELSE f[x]]
\* del dict[k]
Del(f, k) == [x \in DOMAIN f \ {k} |-> f[x]]
EmptyDict == [x \in {} |-> 0]

(***************************************************************************)
(* utils.py: token codec.                                                  *)
(***************************************************************************)
\* create_access_token: exp = now + expiry, iat = now, jti = uuid4()
CreateAccessToken(user_data, expiry, refresh, jti) ==
  [user |-> user_data, exp |-> now + expiry, iat |-> now, jti |-> jti,
   refresh |-> refresh, signed |-> TRUE]

\* A token that was not signed with JWT_SECRET.
ForgedToken ==
  [user |-> [user_id |-> 1, global_role |-> NoGlobalRole], exp |-> MaxAuthTime + ACCESS_EXPIRE,
   iat |-> 0, jti |-> 1, refresh |-> FALSE, signed |-> FALSE]

\* A decoder that verifies the signature only.  Not the code's behaviour; C12 is
\* expected to fail with it.
DecodeOk_NoExp(tok) == tok.signed

\* decode_token: jwt.decode verifies signature and exp (expired when exp <= now);
\* any failure returns None (FALSE here means None).
DecodeOk(tok) == tok.signed /\ now < tok.exp

(***************************************************************************)
(* database/redis.py: the jti blocklist.                                   *)
(***************************************************************************)
\* token_in_blocklist: the value returned, given the reachability of Redis, its
\* keys, _memory_blocklist and the clock.  _redis_client.get(jti) is not None while the
\* key set with ex=TTL has not reached its expiry; a Redis exception falls to the map.
TokenInBlocklistIn(up, redis, memory, t, j) ==
  IF up THEN j \in DOMAIN redis /\ t < redis[j]
  ELSE IF j \notin DOMAIN memory THEN FALSE
  ELSE IF memory[j] < t THEN FALSE
  ELSE TRUE

\* token_in_blocklist(jti) in the current state
TokenInBlocklist(j) == TokenInBlocklistIn(redisUp, redisJti, memoryBlocklist, now, j)

\* A lookup that leaves expired entries in the map.  Not the code's behaviour; C33
\* is expected to fail with it.
MemoryAfterLookup_Keep(j) == memoryBlocklist

\* token_in_blocklist: _memory_blocklist after the call (lazy purge of an expired entry)
MemoryAfterLookup(j) ==
  IF ~redisUp /\ j \in DOMAIN memoryBlocklist /\ memoryBlocklist[j] < now
  THEN Del(memoryBlocklist, j)
  ELSE memoryBlocklist

\* A registry whose SET toggles: a jti that is already listed is dropped.  Not the
\* code's behaviour; C10 is expected to fail with it.
AddJtiToBlocklist_Toggle(j) ==
  IF redisUp
  THEN [redis |-> IF j \in DOMAIN redisJti THEN Del(redisJti, j)
                  ELSE Put(redisJti, j, now + JTI_EXPIRY),
        memory |-> memoryBlocklist]
  ELSE [redis |-> redisJti,
        memory |-> IF j \in DOMAIN memoryBlocklist THEN Del(memoryBlocklist, j)
                   ELSE Put(memoryBlocklist, j, now + JTI_EXPIRY)]

\* A registry that lists the next jti as well.  Not the code's behaviour; C38 is
\* expected to fail with it.
AddJtiToBlocklist_Pair(j) ==
  IF redisUp
  THEN [redis |-> Put(Put(redisJti, j, now + JTI_EXPIRY), j + 1, now + JTI_EXPIRY),
        memory |-> memoryBlocklist]
  ELSE [redis |-> redisJti,
        memory |-> Put(Put(memoryBlocklist, j, now + JTI_EXPIRY), j + 1, now + JTI_EXPIRY)]

\* add_jti_to_blocklist: Redis SET jti "1" EX JTI_EXPIRY, or on an exception the
\* in-process map; yields both stores after the call.
AddJtiToBlocklist(j) ==
  IF redisUp
  THEN [redis |-> Put(redisJti, j, now + JTI_EXPIRY), memory |-> memoryBlocklist]
  ELSE [redis |-> redisJti, memory |-> Put(memoryBlocklist, j, now + JTI_EXPIRY)]

(***************************************************************************)
(* dependencies.py: TokenBearer.__call__ and its two subclasses.           *)
(***************************************************************************)
\* A bearer that does not look at the refresh flag.  Not the code's behaviour; C35
\* is expected to fail with it.
VerifyTokenData_Any(kind, tok) == TRUE

\* AccessTokenBearer.verify_token_data / RefreshTokenBearer.verify_token_data
VerifyTokenData(kind, tok) ==
  IF kind = "access" THEN ~tok.refresh ELSE tok.refresh

\* TokenBearer.__call__: 200 stands for "token_data returned"
BearerStatus(kind, tok) ==
  IF ~DecodeOk(tok) THEN 401
  ELSE IF TokenInBlocklist(tok.jti) THEN 401
  ELSE IF ~VerifyTokenData(kind, tok) THEN 401
  ELSE IF ~(tok.user.user_id > 0) THEN 401
  ELSE 200

\* TokenBearer.__call__: the stages the request went through, in the order of the code:
\* decode_token, token_in_blocklist, verify_token_data, the "user" claims
BearerReached(kind, tok) ==
  IF ~DecodeOk(tok) THEN {"decode"}
  ELSE IF TokenInBlocklist(tok.jti) THEN {"decode", "blocklist"}
  ELSE IF ~VerifyTokenData(kind, tok) THEN {"decode", "blocklist", "verify"}
  ELSE {"decode", "blocklist", "verify", "claims"}

\* HTTPBearer.__call__ (auto_error left at True) on a request with no Authorization
\* header raises before TokenBearer's own checks run: 403 "Not authenticated" in the
\* FastAPI releases that predate the switch to 401, 401 in the later ones.  The
\* repository pins no release.
HTTPBearerMissingStatus == {401, 403}

\* A bearer that looks the jti up before it decodes.  Not the code's behaviour; C32 is
\* expected to fail with it.
BearerMemory_LookupFirst(tok) == MemoryAfterLookup(tok.jti)

\* _memory_blocklist after TokenBearer.__call__ (the lookup runs only after a good decode)
BearerMemory(tok) ==
  IF DecodeOk(tok) THEN MemoryAfterLookup(tok.jti) ELSE memoryBlocklist

Presentable == tokens \cup {ForgedToken}

IssuedJtis == {t.jti : t \in tokens}
\* A uuid that create_access_token never handed out.
UnknownJti == MaxJti + 1

\* What a step answered: the handler, the HTTP status, the presented token's jti and
\* whether that token had been logged out before the request.
BearerResp(opname, tok, status) ==
  [op |-> opname, status |-> status, jti |-> tok.jti,
   wasLoggedOut |-> tok.signed /\ tok.jti \in loggedOut]

(***************************************************************************)
(* service/auth_service.py and routers/auth_router.py.                     *)
(***************************************************************************)
\* get_global_role_for_user / authenticate_user lines 104-112
GlobalRoleClaim(u) ==
  IF globalRoleOf[u] # NoRole /\ globalRoleOf[u] \in RoleIds
  THEN [role_id |-> globalRoleOf[u], role_name |-> RoleName[globalRoleOf[u]]]
  ELSE NoGlobalRole

\* A refresh that recomputes the claims from the store.  Not the code's behaviour; C20
\* is expected to fail with it.
NewUserClaim_Recomputed(user_payload) ==
  [user_id |-> user_payload.user_id, global_role |-> GlobalRoleClaim(user_payload.user_id)]

\* refresh_token_pair: new_user_claim = user_payload
NewUserClaim(user_payload) == user_payload

\* An issuer that gives nothing out while Redis is unreachable.  Not the code's
\* behaviour; C19 is expected to fail with it.
TokenPair_Blocked(user_payload) ==
  IF redisUp
  THEN {CreateAccessToken(user_payload, ACCESS_EXPIRE, FALSE, nextJti),
        CreateAccessToken(user_payload, REFRESH_EXPIRE, TRUE, nextJti + 1)}
  ELSE {}

\* authenticate_user: the access / refresh pair issued for a payload
TokenPair(user_payload) ==
  {CreateAccessToken(user_payload, ACCESS_EXPIRE, FALSE, nextJti),
   CreateAccessToken(user_payload, REFRESH_EXPIRE, TRUE, nextJti + 1)}

\* POST /auth/login -> authenticate_user
Login(u, passwordOk) ==
  /\ nextJti + 1 <= MaxJti
  /\ IF passwordOk /\ u \in DOMAIN globalRoleOf
     THEN /\ tokens' = tokens \cup TokenPair([user_id |-> u, global_role |-> GlobalRoleClaim(u)])
          /\ nextJti' = nextJti + 2
          /\ resp' = [op |-> "login", status |-> 200, access |-> nextJti, refresh |-> nextJti + 1]
     ELSE /\ resp' = [op |-> "login", status |-> 401]
          /\ UNCHANGED <<tokens, nextJti>>
  /\ UNCHANGED <<now, redisUp, redisJti, memoryBlocklist, revoked, loggedOut, storeVars, permVars, flightVars>>

\* Any endpoint behind Depends(get_current_user): AccessTokenBearer, then get_current_user
GetCurrentUser(tok) ==
  /\ resp' = BearerResp("request", tok, BearerStatus("access", tok))
  /\ memoryBlocklist' = BearerMemory(tok)
  /\ UNCHANGED <<now, redisUp, redisJti, tokens, nextJti, revoked, loggedOut, storeVars, permVars, flightVars>>

\* POST /auth/logout: AccessTokenBearer, then revoke_jti(jti)
Logout(tok) ==
  LET status == BearerStatus("access", tok)
      blk == AddJtiToBlocklist(tok.jti)
  IN /\ resp' = BearerResp("logout", tok, status)
     /\ IF status = 200
        THEN /\ redisJti' = blk.redis
             /\ memoryBlocklist' = blk.memory
             /\ revoked' = revoked \cup {tok.jti}
             /\ loggedOut' = loggedOut \cup {tok.jti}
        ELSE /\ memoryBlocklist' = BearerMemory(tok)
             /\ UNCHANGED <<redisJti, revoked, loggedOut>>
     /\ UNCHANGED <<now, redisUp, tokens, nextJti, storeVars, permVars, flightVars>>

\* refresh_token_pair up to its first raise: AuthenticationError for a bad "user"
\* payload (401 in the router), DatabaseError when db.get raises (500 in the router),
\* UserNotFoundError when the users row is gone (no except clause in the router: the
\* handler of main.py answers 400 for a UserServiceError); 200 when none is raised
RefreshTokenPairStatus(tok) ==
  IF ~(tok.user.user_id > 0) THEN 401
  ELSE IF ~dbUp THEN 500
  ELSE IF tok.user.user_id \notin DOMAIN globalRoleOf THEN 400
  ELSE 200

\* POST /auth/refresh-token: the status of the answer
RefreshStatus(tok) ==
  IF BearerStatus("refresh", tok) # 200 THEN BearerStatus("refresh", tok)
  ELSE RefreshTokenPairStatus(tok)

\* A refresh that revokes the old jti as soon as the bearer check has passed.  Not
\* the code's behaviour; C39 is expected to fail with it.
RevokesOldJti_First(tok) == BearerStatus("refresh", tok) = 200

\* refresh_token_pair: revoke_jti(jti_old) comes after the payload and user checks
RevokesOldJti(tok) == RefreshStatus(tok) = 200

\* POST /auth/refresh-token: RefreshTokenBearer, then refresh_token_pair
RefreshToken(tok) ==
  LET status == RefreshStatus(tok)
      blk == AddJtiToBlocklist(tok.jti)
  IN /\ nextJti + 1 <= MaxJti
     /\ IF RevokesOldJti(tok)
        THEN /\ redisJti' = blk.redis
             /\ memoryBlocklist' = blk.memory
             /\ revoked' = revoked \cup {tok.jti}
        ELSE /\ memoryBlocklist' = BearerMemory(tok)
             /\ UNCHANGED <<redisJti, revoked>>
     /\ IF status = 200
        THEN /\ tokens' = tokens \cup TokenPair(NewUserClaim(tok.user))
             /\ nextJti' = nextJti + 2
        ELSE UNCHANGED <<tokens, nextJti>>
     /\ resp' = BearerResp("refresh", tok, status)
     /\ UNCHANGED <<now, redisUp, loggedOut, storeVars, permVars, flightVars>>

\* POST /auth/refresh-token up to the return of RefreshTokenBearer: request req
\* presented tok, the bearer check (with its await token_in_blocklist) passed, and
\* the handler is suspended before refresh_token_pair has revoked anything
BeginRefresh(req, tok) ==
  /\ ~\E p \in pending : p.req = req
  /\ BearerStatus("refresh", tok) = 200
  /\ pending' = pending \cup {[req |-> req, tok |-> tok]}
  /\ memoryBlocklist' = BearerMemory(tok)
  /\ resp' = [op |-> "refresh_checked", req |-> req]
  /\ UNCHANGED <<now, redisUp, redisJti, tokens, nextJti, revoked, loggedOut, storeVars,
                 permVars, dbUp, inflight, exchanged>>

\* the rest of that request: refresh_token_pair revokes the old jti (there is no
\* second look at the blocklist) and issues the new pair
FinishRefresh(p) ==
  LET blk == AddJtiToBlocklist(p.tok.jti)
  IN /\ p \in pending
     /\ nextJti + 1 <= MaxRaceJti
     /\ redisJti' = blk.redis
     /\ memoryBlocklist' = blk.memory
     /\ revoked' = revoked \cup {p.tok.jti}
     /\ tokens' = tokens \cup TokenPair(NewUserClaim(p.tok.user))
     /\ nextJti' = nextJti + 2
     /\ pending' = pending \ {p}
     /\ exchanged' = exchanged \cup {[req |-> p.req, jti |-> p.tok.jti]}
     /\ resp' = BearerResp("refresh", p.tok, 200)
     /\ UNCHANGED <<now, redisUp, loggedOut, storeVars, permVars, dbUp, inflight>>

\* revoke_jti(jti) called again for a jti that is already revoked (two requests with
\* the same token that both passed the bearer check before either revoked), or
\* for a jti that was never issued.  A first revocation is part of Logout / RefreshToken.
RevokeJti(j) ==
  LET blk == AddJtiToBlocklist(j)
  IN /\ redisJti' = blk.redis
     /\ memoryBlocklist' = blk.memory
     /\ revoked' = revoked \cup {j}
     /\ resp' = [op |-> "revoke", status |-> 200, jti |-> j, wasRevoked |-> j \in revoked]
     /\ UNCHANGED <<now, redisUp, tokens, nextJti, loggedOut, storeVars, permVars, flightVars>>

\* The hospital_role_permission rows at provisioning: role 1 is linked to "view",
\* every other role to "list".
InitialHospitalRolePermission ==
  {[hospital_role_id |-> r,
    permission_name |-> IF r = 1 THEN <<"v","i","e","w">> ELSE <<"l","i","s","t">>] :
     r \in 1..NumHospitals}

\* The role_permission rows at provisioning: role 1 is linked to "manage", role 2
\* to "edit".
InitialRolePermission ==
  {[role_id |-> 1, permission_name |-> <<"m","a","n","a","g","e">>],
   [role_id |-> 2, permission_name |-> <<"e","d","i","t">>]}

\* A request with no Authorization header to an endpoint behind a TokenBearer.
RequestWithoutToken(status) ==
  /\ resp' = [op |-> "missing", status |-> status]
  /\ UNCHANGED <<authVars, storeVars, permVars, flightVars>>

\* Another service changes users.global_role_id.
SetGlobalRole(u, r) ==
  /\ globalRoleOf[u] # r
  /\ globalRoleOf' = [globalRoleOf EXCEPT ![u] = r]
  /\ resp' = NoResp
  /\ UNCHANGED <<authVars, hospitalUserRoles, userPermissions, hospitalRolePermission, rolePermission, permVars, flightVars>>

\* The row of user u leaves the users table (nothing in src/ deletes one; the check
\* `if not user` of refresh_token_pair is for this).
DeleteUser(u) ==
  /\ u \in DOMAIN globalRoleOf
  /\ globalRoleOf' = [x \in DOMAIN globalRoleOf \ {u} |-> globalRoleOf[x]]
  /\ resp' = NoResp
  /\ UNCHANGED <<authVars, hospitalUserRoles, userPermissions, hospitalRolePermission, rolePermission, permVars, flightVars>>

\* Redis drops a key at its expiry instant.
ExpireKeys(f, t) == [k \in {x \in DOMAIN f : t < f[x]} |-> f[k]]

\* Time passes.
AuthTick ==
  /\ now + AuthTickStep <= MaxAuthTime
  /\ now' = now + AuthTickStep
  /\ redisJti' = ExpireKeys(redisJti, now')
  /\ resp' = NoResp
  /\ UNCHANGED <<redisUp, memoryBlocklist, tokens, nextJti, revoked, loggedOut, storeVars, permVars, flightVars>>

\* The Redis server becomes unreachable / reachable again.
RedisFlip ==
  /\ redisUp' = ~redisUp
  /\ resp' = NoResp
  /\ UNCHANGED <<now, redisJti, memoryBlocklist, tokens, nextJti, revoked, loggedOut, storeVars, permVars, flightVars>>

\* No call is suspended and the database answers.
InitFlightVars ==
  /\ dbUp = TRUE
  /\ inflight = {}
  /\ pending = {}
  /\ exchanged = {}

InitPermVars ==
  /\ permsCache = EmptyDict
  /\ permcheckCache = EmptyDict
  /\ writes = 0
  /\ cacheWrites = 0
  /\ addedGrants = {}
  /\ freshGrants = {}
  /\ lastRemoval = -1

InitAuth ==
  /\ now = 0
  /\ redisUp = TRUE
  /\ redisJti = EmptyDict
  /\ memoryBlocklist = EmptyDict
  /\ tokens = {}
  /\ nextJti = 1
  /\ revoked = {}
  /\ loggedOut = {}
  /\ resp = NoResp
  /\ globalRoleOf = [u \in Users |-> IF u = 1 THEN 1 ELSE NoRole]
  /\ hospitalUserRoles = {}
  /\ userPermissions = {}
  /\ hospitalRolePermission = InitialHospitalRolePermission
  /\ rolePermission = InitialRolePermission
  /\ InitFlightVars
  /\ InitPermVars

NextAuth ==
  \/ \E u \in Users, passwordOk \in BOOLEAN : Login(u, passwordOk)
  \/ \E tok \in Presentable : GetCurrentUser(tok)
  \/ \E tok \in Presentable : Logout(tok)
  \/ \E tok \in Presentable : RefreshToken(tok)
  \/ \E j \in revoked \cup {UnknownJti} : RevokeJti(j)
  \/ \E status \in HTTPBearerMissingStatus : RequestWithoutToken(status)
  \/ AuthTick
  \/ RedisFlip

SpecAuth == InitAuth /\ [][NextAuth]_vars

\* Login and refresh exchanges while global roles change and Redis comes and goes.
NextRefresh ==
  \/ \E u \in Users, passwordOk \in BOOLEAN : Login(u, passwordOk)
  \/ \E tok \in Presentable : RefreshToken(tok)
  \/ \E u \in Users, r \in RoleIds \cup {NoRole} : SetGlobalRole(u, r)
  \/ RedisFlip

SpecRefresh == InitAuth /\ [][NextRefresh]_vars

\* await token_in_blocklist(jti), called on its own
LookupJti(j) ==
  /\ memoryBlocklist' = MemoryAfterLookup(j)
  /\ resp' = [op |-> "lookup", jti |-> j, result |-> TokenInBlocklist(j),
              expired |-> ~redisUp /\ j \in DOMAIN memoryBlocklist /\ memoryBlocklist[j] < now]
  /\ UNCHANGED <<now, redisUp, redisJti, tokens, nextJti, revoked, loggedOut, storeVars,
                 permVars, flightVars>>

\* Time passes, past the expiry of the registry entries.
FallbackTick ==
  /\ now + FallbackTickStep <= MaxFallbackTime
  /\ now' = now + FallbackTickStep
  /\ redisJti' = ExpireKeys(redisJti, now')
  /\ resp' = NoResp
  /\ UNCHANGED <<redisUp, memoryBlocklist, tokens, nextJti, revoked, loggedOut, storeVars,
                 permVars, flightVars>>

\* The registry on its own: revocations and lookups while Redis comes and goes.
NextFallback ==
  \/ \E j \in 1..NumFallbackJtis : RevokeJti(j)
  \/ \E j \in 1..NumFallbackJtis : LookupJti(j)
  \/ FallbackTick
  \/ RedisFlip

SpecFallback == InitAuth /\ [][NextFallback]_vars

\* Refresh requests interleaved at their awaits; Redis stays reachable.
NextRefreshRace ==
  \/ \E u \in Users, passwordOk \in BOOLEAN : Login(u, passwordOk)
  \/ \E req \in 1..MaxRequests, tok \in tokens : BeginRefresh(req, tok)
  \/ \E p \in pending : FinishRefresh(p)

SpecRefreshRace == InitAuth /\ [][NextRefreshRace]_vars

(***************************************************************************)
(* Permission data of the credential store.                                *)
(***************************************************************************)
P_MANAGE == <<"m","a","n","a","g","e">>
P_EDIT == <<"e","d","i","t">>
P_VIEW == <<"v","i","e","w">>
P_LIST == <<"l","i","s","t">>
P_AUDIT == <<"a","u","d","i","t">>
\* A direct grant's permission_name as typed by an administrator.
RAW_AUDIT == <<" ","A","u","d","i","t">>

HRoleIds == Hospitals
\* hospital_role.hospital_id: the tenant role r is the role of hospital r
HRoleHospital == [r \in HRoleIds |-> r]

\* role_permission joined with permission_master: role_id -> permission names
RolePermissionNames ==
  [r \in RoleIds |-> {l.permission_name : l \in {x \in rolePermission : x.role_id = r}}]

\* hospital_role_permission joined with permission_master: hospital_role_id ->
\* permission names
HospitalRolePermissionNames ==
  [r \in HRoleIds |->
     {l.permission_name : l \in {x \in hospitalRolePermission : x.hospital_role_id = r}}]

GrantNames == {RAW_AUDIT}
GrantScopes == {[scope |-> "platform", hospital_id |-> NoHospital]}
                 \cup {[scope |-> "tenant", hospital_id |-> h] : h \in Hospitals}

HospitalContexts == Hospitals \cup {NoHospital}

(***************************************************************************)
(* dependencies.py: get_user_permissions.                                  *)
(***************************************************************************)
\* direct_q: every user_permissions row of the user
DirectQ(user_id) == {g.permission_name : g \in {x \in userPermissions : x.user_id = user_id}}

\* global_q: WHERE RoleMaster.role_id == Users.global_role_id, with no condition on
\* the user: users enters the FROM list and every user's global role matches.
GlobalQ ==
  UNION {RolePermissionNames[globalRoleOf[x]] : x \in {y \in DOMAIN globalRoleOf : globalRoleOf[y] \in RoleIds}}

\* hospital_q: the user's hospital_user_roles rows (is_active is not looked at),
\* narrowed to hospital_id only `if hospital_id:`
HospitalQ(user_id, hospital_id) ==
  UNION {HospitalRolePermissionNames[a.hospital_role_id] :
           a \in {x \in hospitalUserRoles :
                    /\ x.user_id = user_id
                    /\ (hospital_id # NoHospital => x.hospital_id = hospital_id)}}

\* lines 139-142: union_all, then set(p.strip().lower() for p in ... if p)
QueryPermissions(user_id, hospital_id) ==
  {NormalizePerm(p) :
     p \in {q \in DirectQ(user_id) \cup GlobalQ \cup HospitalQ(user_id, hospital_id) : q # <<>>}}

\* a Redis GET of a cache key: present until its expiry
CacheHit(cache, key) == key \in DOMAIN cache /\ now < cache[key].expiry

\* cache_chabbhi = f"user:{user_id}:hospital:{hospital_id or 'global'}:perms"
PermsKey(user_id, hospital_id) == <<user_id, hospital_id>>

\* A resolution that treats an unreachable database as an empty result.  Not the
\* code's behaviour; C21 is expected to fail with it.
GetUserPermissionsRaises_Swallow(user_id, hospital_id) == ~redisUp

\* get_user_permissions: the call raises when the Redis GET fails, and on a miss
\* when db.execute fails (neither await is inside a try)
GetUserPermissionsRaises(user_id, hospital_id) ==
  \/ ~redisUp
  \/ ~CacheHit(permsCache, PermsKey(user_id, hospital_id)) /\ ~dbUp

\* get_user_permissions: the set returned
GetUserPermissionsResult(user_id, hospital_id) ==
  IF CacheHit(permsCache, PermsKey(user_id, hospital_id))
  THEN permsCache[PermsKey(user_id, hospital_id)].value
  ELSE QueryPermissions(user_id, hospital_id)

\* A resolution that writes the entry again on a hit.  Not the code's behaviour;
\* C30 is expected to fail with it.
GetUserPermissionsCache_Refresh(user_id, hospital_id) ==
  Put(permsCache, PermsKey(user_id, hospital_id),
      [value |-> IF CacheHit(permsCache, PermsKey(user_id, hospital_id))
                 THEN permsCache[PermsKey(user_id, hospital_id)].value
                 ELSE QueryPermissions(user_id, hospital_id),
       expiry |-> now + CACHE_TTL])

\* get_user_permissions: the perms tier after the call (written on a miss only)
GetUserPermissionsCache(user_id, hospital_id) ==
  IF CacheHit(permsCache, PermsKey(user_id, hospital_id))
  THEN permsCache
  ELSE Put(permsCache, PermsKey(user_id, hospital_id),
           [value |-> QueryPermissions(user_id, hospital_id), expiry |-> now + CACHE_TTL])

(***************************************************************************)
(* dependencies.py: is_super_admin, require_permissions.                   *)
(***************************************************************************)
\* A comparison that lower-cases but does not strip.  Not the code's behaviour; C3 is
\* expected to fail with it.
IsSuperAdmin_NoStrip(user) ==
  /\ user.global_role.role_id # NoRole
  /\ Lower(user.global_role.role_name) = SUPERADMIN

\* is_super_admin(user): global_role must be a dict whose role_name strips and
\* lower-cases to "superadmin"
IsSuperAdmin(user) ==
  /\ user.global_role.role_id # NoRole
  /\ Lower(Strip(user.global_role.role_name)) = SUPERADMIN

RAW_VIEW == <<"V","i","e","w"," ">>

\* The guards the routers build: require_permissions([...]) with the default
\* allow_super_admin=True (hospitals_router.py) and with allow_super_admin=False
\* (doctors_router.py).
GuardConfigs ==
  {[permissions |-> <<P_AUDIT>>, allow_super_admin |-> TRUE],
   [permissions |-> <<RAW_VIEW>>, allow_super_admin |-> FALSE]}

\* required = {_normalize_perm(p) for p in permissions}
Required(permissions) == {NormalizePerm(permissions[i]) : i \in 1..Len(permissions)}

\* The characters of keys and permission names, in code point order (the order
\* sorted() compares str by).
CodeOrder ==
  <<" ",",",".","0","1","2","3","4","5","6","7","8","9">>
    \o <<":","A","B","C","D","E","F","G","H","I","J","K","L","M","N","O","P","Q","R","S","T","U","V","W","X","Y","Z">>
    \o <<"_">>
    \o <<"a","b","c","d","e","f","g","h","i","j","k","l","m","n","o","p","q","r","s","t","u","v","w","x","y","z">>

Ord(c) == CHOOSE i \in 1..Len(CodeOrder) : CodeOrder[i] = c

RECURSIVE StrLess(_, _)
\* a < b for two str
StrLess(a, b) ==
  IF a = <<>> THEN b # <<>>
  ELSE IF b = <<>> THEN FALSE
  ELSE IF Head(a) = Head(b) THEN StrLess(Tail(a), Tail(b))
  ELSE Ord(Head(a)) < Ord(Head(b))

RECURSIVE SortedNames(_)
\* sorted(required)
SortedNames(names) ==
  IF names = {} THEN <<>>
  ELSE LET m == CHOOSE x \in names : \A y \in names \ {x} : StrLess(x, y)
       IN <<m>> \o SortedNames(names \ {m})

RECURSIVE Join(_, _)
\* sep.join(parts)
Join(parts, sep) ==
  IF parts = <<>> THEN <<>>
  ELSE IF Len(parts) = 1 THEN parts[1]
  ELSE parts[1] \o sep \o Join(Tail(parts), sep)

\* str(n) for 0 <= n < 100
Decimal(n) ==
  LET digits == <<"0","1","2","3","4","5","6","7","8","9">>
  IN IF n < 10 THEN <<digits[n + 1]>> ELSE <<digits[(n \div 10) + 1], digits[(n % 10) + 1]>>

\* hospital_id or 'global'
HospitalKey(hospital_id) ==
  IF hospital_id = NoHospital THEN <<"g","l","o","b","a","l">> ELSE Decimal(hospital_id)

\* cache_key = f"permcheck:user:{user_id}:hospital:{hospital_id or 'global'}:{','.join(sorted(required))}"
\* held as its three variable parts
PermcheckKey(user_id, hospital_id, required) ==
  <<user_id, hospital_id, Join(SortedNames(required), <<",">>)>>

\* the Redis key a perms key stands for
PermsKeyString(k) ==
  <<"u","s","e","r",":">> \o Decimal(k[1]) \o <<":","h","o","s","p","i","t","a","l",":">> \o HospitalKey(k[2]) \o <<":","p","e","r","m","s">>

\* the Redis key a permcheck key stands for
PermcheckKeyString(k) ==
  <<"p","e","r","m","c","h","e","c","k",":","u","s","e","r",":">> \o Decimal(k[1]) \o <<":","h","o","s","p","i","t","a","l",":">> \o HospitalKey(k[2]) \o <<":">> \o k[3]

\* A scan pattern that stops after the user id.  Not the code's behaviour; C40 is
\* expected to fail with it.
PermcheckPattern_NoSeparator(user_id, hospital_id) ==
  <<"p","e","r","m","c","h","e","c","k",":","u","s","e","r",":">> \o Decimal(user_id) \o <<"*">>

\* pattern_for_permcheck = f"permcheck:user:{user_id}:hospital:{hospital_key}:*"
PermcheckPattern(user_id, hospital_id) ==
  <<"p","e","r","m","c","h","e","c","k",":","u","s","e","r",":">> \o Decimal(user_id) \o <<":","h","o","s","p","i","t","a","l",":">> \o HospitalKey(hospital_id) \o <<":", "*">>

\* scan_iter(match=pattern) for a pattern whose only wildcard is its final "*"
GlobMatch(pattern, key) ==
  LET prefix == SubSeq(pattern, 1, Len(pattern) - 1)
  IN /\ Len(key) >= Len(prefix)
     /\ SubSeq(key, 1, Len(prefix)) = prefix

\* The "user" claims a token can carry: a user id with no global role or with any
\* of the roles.
UserClaims ==
  {[user_id |-> u, global_role |-> gr] :
     u \in Users,
     gr \in {NoGlobalRole} \cup {[role_id |-> r, role_name |-> RoleName[r]] : r \in RoleIds}}

\* The "user" claims of the tokens authenticate_user issues for the users as stored.
LoginClaims == {[user_id |-> u, global_role |-> GlobalRoleClaim(u)] : u \in Users}

\* require_permissions(...).dependency: the check raises something other than an
\* HTTPException (the Redis GET of the decision key, or get_user_permissions)
GuardRaises(user, hospital_id, g) ==
  /\ ~(g.allow_super_admin /\ IsSuperAdmin(user))
  /\ \/ ~redisUp
     \/ /\ ~CacheHit(permcheckCache,
                     PermcheckKey(user.user_id, hospital_id, Required(g.permissions)))
        /\ GetUserPermissionsRaises(user.user_id, hospital_id)

\* require_permissions(...).dependency: what it answers.
\* [status (500: the exception reaches the global handler), resolved
\* (get_user_permissions was called and returned), found, missing]
GuardOutcome(user, hospital_id, g) ==
  LET required == Required(g.permissions)
      key == PermcheckKey(user.user_id, hospital_id, required)
      found == GetUserPermissionsResult(user.user_id, hospital_id)
      missing == required \ found
  IN IF g.allow_super_admin /\ IsSuperAdmin(user)
     THEN [status |-> 200, bypass |-> TRUE, resolved |-> FALSE, found |-> {}, missing |-> {}]
     ELSE IF GuardRaises(user, hospital_id, g)
     THEN [status |-> 500, bypass |-> FALSE, resolved |-> FALSE, found |-> {}, missing |-> {}]
     ELSE IF CacheHit(permcheckCache, key)
     THEN [status |-> IF permcheckCache[key].value.allowed THEN 200 ELSE 403,
           bypass |-> FALSE, resolved |-> FALSE, found |-> {},
           missing |-> permcheckCache[key].value.missing]
     ELSE [status |-> IF missing = {} THEN 200 ELSE 403,
           bypass |-> FALSE, resolved |-> TRUE, found |-> found, missing |-> missing]

\* A guard that caches every decision as allowed.  Not the code's behaviour; C31 is
\* expected to fail with it.
GuardPermcheckCache_Allow(user, hospital_id, g) ==
  IF GuardOutcome(user, hospital_id, g).resolved
  THEN Put(permcheckCache,
           PermcheckKey(user.user_id, hospital_id, Required(g.permissions)),
           [value |-> [allowed |-> TRUE, missing |-> {}], expiry |-> now + CACHE_TTL])
  ELSE permcheckCache

\* require_permissions(...).dependency: the permcheck tier after the call
GuardPermcheckCache(user, hospital_id, g) ==
  LET required == Required(g.permissions)
      key == PermcheckKey(user.user_id, hospital_id, required)
      out == GuardOutcome(user, hospital_id, g)
  IN IF out.resolved
     THEN Put(permcheckCache, key,
              [value |-> [allowed |-> out.missing = {}, missing |-> out.missing],
               expiry |-> now + CACHE_TTL])
     ELSE permcheckCache

(***************************************************************************)
(* dependencies.py: invalidation.                                          *)
(***************************************************************************)
\* An invalidation that leaves the perms key in place.  Not the code's behaviour; C7
\* is expected to fail with it.
InvalidatedPerms_Keep(cache, user_id, hospital_id) == cache

\* invalidate_user_permission_from_cache: the perms tier after DEL perms_key
InvalidatedPerms(cache, user_id, hospital_id) == Del(cache, PermsKey(user_id, hospital_id))

\* invalidate_user_permission_from_cache: the permcheck tier after the scan of
\* permcheck:user:{user_id}:hospital:{hospital_key}:* and DEL of each match
InvalidatedPermcheck(cache, user_id, hospital_id) ==
  [k \in {x \in DOMAIN cache :
            ~GlobMatch(PermcheckPattern(user_id, hospital_id), PermcheckKeyString(x))} |-> cache[k]]

\* invalidate_hospital_role_cache: the users selected (every row of the role)
HospitalRoleUsers(hospital_role_id) ==
  {a.user_id : a \in {x \in hospitalUserRoles : x.hospital_role_id = hospital_role_id}}

(***************************************************************************)
(* auth_helpers.py: the claims snapshot.                                   *)
(***************************************************************************)
\* get_hospital_roles_for_user: one entry per hospital_user_roles row of the user
GetHospitalRolesForUser(user_id) ==
  {[hospital_id |-> a.hospital_id, hospital_role_id |-> a.hospital_role_id] :
     a \in {x \in hospitalUserRoles : x.user_id = user_id}}

\* build_permissions_snapshot: platform_perms
SnapshotPlatformPerms(user_id) ==
  {Strip(g.permission_name) :
     g \in {x \in userPermissions :
              x.user_id = user_id /\ Strip(x.permission_name) # <<>> /\ x.scope # "tenant"}}
  \cup (IF globalRoleOf[user_id] \in RoleIds
        THEN {Strip(n) : n \in RolePermissionNames[globalRoleOf[user_id]]}
        ELSE {})

\* build_permissions_snapshot: tenant_map[hid]
SnapshotTenantPerms(user_id, hid) ==
  {Strip(g.permission_name) :
     g \in {x \in userPermissions :
              /\ x.user_id = user_id /\ Strip(x.permission_name) # <<>>
              /\ x.scope = "tenant" /\ x.hospital_id = hid}}
  \cup UNION {{Strip(n) : n \in HospitalRolePermissionNames[a.hospital_role_id]} :
                a \in {x \in hospitalUserRoles : x.user_id = user_id /\ x.hospital_id = hid}}

\* build_permissions_snapshot: the groups returned
BuildPermissionsSnapshot(user_id) ==
  (IF SnapshotPlatformPerms(user_id) # {}
   THEN {[scope |-> "platform", hospital_id |-> NoHospital,
          permissions |-> SnapshotPlatformPerms(user_id)]}
   ELSE {})
  \cup {[scope |-> "tenant", hospital_id |-> h, permissions |-> SnapshotTenantPerms(user_id, h)] :
          h \in {x \in Hospitals : SnapshotTenantPerms(user_id, x) # {}}}

(***************************************************************************)
(* Steps of the permission specification.                                  *)
(***************************************************************************)
\* history: the grants of (user_id, hospital_id) that were added and then invalidated
FreshFor(user_id, hospital_id) ==
  {f \in freshGrants : f.user_id = user_id /\ f.hospital_id = hospital_id}

\* history kept by a call of get_user_permissions(user_id, hospital_id)
Resolved(user_id, hospital_id) ==
  freshGrants' = freshGrants \ FreshFor(user_id, hospital_id)

\* await get_user_permissions(user_id, db, hospital_id)
GetUserPermissions(user_id, hospital_id) ==
  LET hit == CacheHit(permsCache, PermsKey(user_id, hospital_id))
  IN IF GetUserPermissionsRaises(user_id, hospital_id)
     THEN /\ resp' = [op |-> "resolve_error"]
          /\ UNCHANGED <<authVars, flightVars, storeVars, permVars>>
     ELSE /\ hit \/ cacheWrites < MaxCacheWrites
          /\ permsCache' = GetUserPermissionsCache(user_id, hospital_id)
          /\ cacheWrites' = IF hit THEN cacheWrites ELSE cacheWrites + 1
          /\ resp' = [op |-> "resolve", hit |-> hit, expected |-> FreshFor(user_id, hospital_id)]
          /\ Resolved(user_id, hospital_id)
          /\ UNCHANGED <<authVars, flightVars, storeVars, permcheckCache, writes, addedGrants,
                         lastRemoval>>

\* get_user_permissions(user_id, db, hospital_id) up to the point where
\* await db.execute(final_q) has returned: the key was missing and the rows are read;
\* the coroutine is suspended at await _redis_client.set
BeginGetUserPermissions(user_id, hospital_id) ==
  /\ ~GetUserPermissionsRaises(user_id, hospital_id)
  /\ ~CacheHit(permsCache, PermsKey(user_id, hospital_id))
  /\ Cardinality(inflight) < MaxInflight
  /\ inflight' = inflight \cup {[user_id |-> user_id, hospital_id |-> hospital_id,
                                  perms |-> QueryPermissions(user_id, hospital_id)]}
  /\ resp' = [op |-> "resolve_read"]
  /\ UNCHANGED <<authVars, storeVars, permVars, dbUp, pending, exchanged>>

\* the rest of that call: the SET of the key with the set computed from the rows
\* read, ex=CACHE_TTL, and the return
FinishGetUserPermissions(call) ==
  /\ call \in inflight
  /\ cacheWrites < MaxCacheWrites
  /\ permsCache' = Put(permsCache, PermsKey(call.user_id, call.hospital_id),
                       [value |-> call.perms, expiry |-> now + CACHE_TTL])
  /\ cacheWrites' = cacheWrites + 1
  /\ inflight' = inflight \ {call}
  /\ resp' = [op |-> "resolve_write"]
  /\ UNCHANGED <<authVars, storeVars, permcheckCache, writes, addedGrants, freshGrants,
                 lastRemoval, dbUp, pending, exchanged>>

\* A request to an endpoint guarded by Depends(require_permissions(...)), after
\* get_current_user has returned the token's user claims.
PermissionGuard(user, hospital_id, g) ==
  LET out == GuardOutcome(user, hospital_id, g)
      hit == CacheHit(permsCache, PermsKey(user.user_id, hospital_id))
      n == IF ~out.resolved THEN 0 ELSE IF hit THEN 1 ELSE 2
  IN /\ cacheWrites + n <= MaxCacheWrites
     /\ cacheWrites' = cacheWrites + n
     /\ permcheckCache' = GuardPermcheckCache(user, hospital_id, g)
     /\ permsCache' = IF out.resolved
                      THEN GetUserPermissionsCache(user.user_id, hospital_id)
                      ELSE permsCache
     /\ resp' = [op |-> "guard", status |-> out.status, bypass |-> out.bypass]
     /\ IF out.resolved THEN Resolved(user.user_id, hospital_id) ELSE UNCHANGED freshGrants
     /\ UNCHANGED <<authVars, flightVars, storeVars, writes, addedGrants, lastRemoval>>

\* await invalidate_user_permission_from_cache(user_id, hospital_id)
InvalidateUserPermissionFromCache(user_id, hospital_id) ==
  LET done == {a \in addedGrants : a.user_id = user_id /\ a.hospital_id = hospital_id}
  IN /\ permsCache' = InvalidatedPerms(permsCache, user_id, hospital_id)
     /\ permcheckCache' = InvalidatedPermcheck(permcheckCache, user_id, hospital_id)
     /\ addedGrants' = addedGrants \ done
     /\ freshGrants' = freshGrants \cup done
     /\ resp' = [op |-> "invalidate"]
     /\ UNCHANGED <<authVars, flightVars, storeVars, writes, cacheWrites, lastRemoval>>

RECURSIVE InvalidateAll(_, _, _, _)
\* the loop of invalidate_hospital_role_cache over the selected users
InvalidateAll(users, hospital_id, perms, permcheck) ==
  IF users = {} THEN [perms |-> perms, permcheck |-> permcheck]
  ELSE LET u == CHOOSE x \in users : TRUE
       IN InvalidateAll(users \ {u}, hospital_id,
                        InvalidatedPerms(perms, u, hospital_id),
                        InvalidatedPermcheck(permcheck, u, hospital_id))

\* await invalidate_hospital_role_cache(hospital_role_id, hospital_id, db)
InvalidateHospitalRoleCache(hospital_role_id, hospital_id) ==
  LET users == HospitalRoleUsers(hospital_role_id)
      after == InvalidateAll(users, hospital_id, permsCache, permcheckCache)
      done == {a \in addedGrants : a.user_id \in users /\ a.hospital_id = hospital_id}
  IN /\ users # {}
     /\ permsCache' = after.perms
     /\ permcheckCache' = after.permcheck
     /\ addedGrants' = addedGrants \ done
     /\ freshGrants' = freshGrants \cup done
     /\ resp' = [op |-> "invalidate_role"]
     /\ UNCHANGED <<authVars, flightVars, storeVars, writes, cacheWrites, lastRemoval>>

\* build_token_user_payload(db, user): the sizes of hospital_roles and permissions
BuildTokenUserPayload(user_id) ==
  /\ resp' = [op |-> "claims", groups |-> Cardinality(BuildPermissionsSnapshot(user_id)),
              hospital_roles |-> Cardinality(GetHospitalRolesForUser(user_id))]
  /\ UNCHANGED <<authVars, storeVars, permVars, flightVars>>

\* Another service inserts a user_permissions row (a direct grant).
AddGrant(user_id, name, sc) ==
  LET row == [user_id |-> user_id, permission_name |-> name, scope |-> sc.scope,
              hospital_id |-> sc.hospital_id]
      key == PermsKey(user_id, sc.hospital_id)
  IN /\ writes < MaxWrites
     /\ row \notin userPermissions
     /\ userPermissions' = userPermissions \cup {row}
     /\ writes' = writes + 1
     /\ addedGrants' = addedGrants \cup
          {[user_id |-> user_id, hospital_id |-> sc.hospital_id, permission_name |-> name,
            stale |-> CacheHit(permsCache, key) /\ NormalizePerm(name) \notin permsCache[key].value]}
     /\ resp' = NoResp
     /\ UNCHANGED <<authVars, flightVars, globalRoleOf, hospitalUserRoles, hospitalRolePermission, rolePermission, permsCache, permcheckCache,
                    cacheWrites, freshGrants, lastRemoval>>

\* history: a grant row that is gone is forgotten
Forget(hist, row) ==
  {a \in hist : ~(a.user_id = row.user_id /\ a.hospital_id = row.hospital_id
                  /\ a.permission_name = row.permission_name)}

\* Another service deletes a user_permissions row.
RemoveGrant(row) ==
  /\ writes < MaxWrites
  /\ userPermissions' = userPermissions \ {row}
  /\ writes' = writes + 1
  /\ addedGrants' = Forget(addedGrants, row)
  /\ freshGrants' = Forget(freshGrants, row)
  /\ lastRemoval' = now
  /\ resp' = NoResp
  /\ UNCHANGED <<authVars, flightVars, globalRoleOf, hospitalUserRoles, hospitalRolePermission, rolePermission, permsCache, permcheckCache, cacheWrites>>

\* hospital_service.add_doctor_to_hospital with assign_hospital_role_id: inserts the
\* hospital_user_roles row unless one exists for (user, hospital, role)
AddDoctorToHospital(hospital_id, doctor_user_id, assign_hospital_role_id) ==
  /\ writes < MaxWrites
  /\ ~\E a \in hospitalUserRoles :
        /\ a.user_id = doctor_user_id /\ a.hospital_id = hospital_id
        /\ a.hospital_role_id = assign_hospital_role_id
  /\ hospitalUserRoles' = hospitalUserRoles \cup
       {[user_id |-> doctor_user_id, hospital_id |-> hospital_id,
         hospital_role_id |-> assign_hospital_role_id, is_active |-> TRUE]}
  /\ writes' = writes + 1
  /\ resp' = NoResp
  /\ UNCHANGED <<authVars, flightVars, globalRoleOf, userPermissions, hospitalRolePermission, rolePermission, permsCache, permcheckCache,
                 cacheWrites, addedGrants, freshGrants, lastRemoval>>

\* hospital_service.remove_doctor_from_hospital: deletes the user's rows of the hospital
RemoveDoctorFromHospital(hospital_id, doctor_user_id) ==
  LET gone == {a \in hospitalUserRoles :
                 a.user_id = doctor_user_id /\ a.hospital_id = hospital_id}
  IN /\ writes < MaxWrites
     /\ gone # {}
     /\ hospitalUserRoles' = hospitalUserRoles \ gone
     /\ writes' = writes + 1
     /\ lastRemoval' = now
     /\ resp' = NoResp
     /\ UNCHANGED <<authVars, flightVars, globalRoleOf, userPermissions, hospitalRolePermission, rolePermission, permsCache, permcheckCache,
                    cacheWrites, addedGrants, freshGrants>>

\* Another service deactivates an assignment (is_active = 0) instead of deleting it.
DeactivateAssignment(a) ==
  /\ writes < MaxWrites
  /\ a.is_active
  /\ hospitalUserRoles' = (hospitalUserRoles \ {a}) \cup {[a EXCEPT !.is_active = FALSE]}
  /\ writes' = writes + 1
  /\ lastRemoval' = now
  /\ resp' = NoResp
  /\ UNCHANGED <<authVars, flightVars, globalRoleOf, userPermissions, hospitalRolePermission, rolePermission, permsCache, permcheckCache,
                 cacheWrites, addedGrants, freshGrants>>

\* Another service deletes a hospital_role_permission row (a tenant role loses a link).
RevokeRoleLink(l) ==
  /\ hospitalRolePermission' = hospitalRolePermission \ {l}
  /\ resp' = NoResp
  /\ UNCHANGED <<authVars, globalRoleOf, hospitalUserRoles, userPermissions, rolePermission, permVars, flightVars>>

\* Another service deletes a role_permission row (a global role loses a link).
RevokeGlobalRoleLink(l) ==
  /\ rolePermission' = rolePermission \ {l}
  /\ resp' = NoResp
  /\ UNCHANGED <<authVars, globalRoleOf, hospitalUserRoles, userPermissions,
                 hospitalRolePermission, permVars, flightVars>>

\* The database becomes unreachable / reachable again.
DbFlip ==
  /\ dbUp' = ~dbUp
  /\ resp' = NoResp
  /\ UNCHANGED <<authVars, storeVars, permVars, inflight, pending, exchanged>>

\* Logins and refresh exchanges while users are deleted, the database and Redis
\* come and go and time passes.
NextRefreshFail ==
  \/ \E u \in Users, passwordOk \in BOOLEAN : Login(u, passwordOk)
  \/ \E tok \in Presentable : RefreshToken(tok)
  \/ \E u \in Users : DeleteUser(u)
  \/ DbFlip
  \/ RedisFlip
  \/ AuthTick

SpecRefreshFail == InitAuth /\ [][NextRefreshFail]_vars

\* Time passes; Redis drops the cache keys that reached their expiry.
ExpireEntries(cache, t) == [k \in {x \in DOMAIN cache : t < cache[x].expiry} |-> cache[k]]

PermTick ==
  /\ now + PermTickStep <= MaxPermTime
  /\ now' = now + PermTickStep
  /\ permsCache' = ExpireEntries(permsCache, now')
  /\ permcheckCache' = ExpireEntries(permcheckCache, now')
  /\ resp' = NoResp
  /\ UNCHANGED <<flightVars, redisUp, redisJti, memoryBlocklist, tokens, nextJti, revoked, loggedOut,
                 storeVars, writes, cacheWrites, addedGrants, freshGrants, lastRemoval>>

InitPerm ==
  /\ now = 0
  /\ redisUp = TRUE
  /\ redisJti = EmptyDict
  /\ memoryBlocklist = EmptyDict
  /\ tokens = {}
  /\ nextJti = 1
  /\ revoked = {}
  /\ loggedOut = {}
  /\ resp = NoResp
  /\ globalRoleOf = [u \in Users |-> IF u = 1 THEN 1 ELSE NoRole]
  /\ hospitalUserRoles = {}
  /\ userPermissions = {}
  /\ hospitalRolePermission = InitialHospitalRolePermission
  /\ rolePermission = InitialRolePermission
  /\ InitFlightVars
  /\ InitPermVars

\* Requests that resolve permissions.
NextRequest ==
  \/ \E u \in Users, h \in HospitalContexts : GetUserPermissions(u, h)
  \/ \E user \in LoginClaims, h \in HospitalContexts, g \in GuardConfigs : PermissionGuard(user, h, g)

\* Resolution against every kind of store write; the clock stands still.
NextPerm ==
  \/ NextRequest
  \/ \E u \in Users, h \in HospitalContexts : InvalidateUserPermissionFromCache(u, h)
  \/ \E r \in HRoleIds, h \in Hospitals : InvalidateHospitalRoleCache(r, h)
  \/ \E u \in Users : BuildTokenUserPayload(u)
  \/ \E u \in Users, name \in GrantNames, sc \in GrantScopes : AddGrant(u, name, sc)
  \/ \E row \in userPermissions : RemoveGrant(row)
  \/ \E h \in Hospitals, u \in Users, r \in HRoleIds : AddDoctorToHospital(h, u, r)
  \/ \E h \in Hospitals, u \in Users : RemoveDoctorFromHospital(h, u)
  \/ \E a \in hospitalUserRoles : DeactivateAssignment(a)

SpecPerm == InitPerm /\ [][NextPerm]_vars

\* Resolution while Redis and the database come and go.
NextFail ==
  \/ NextRequest
  \/ \E u \in Users, name \in GrantNames, sc \in GrantScopes : AddGrant(u, name, sc)
  \/ RedisFlip
  \/ DbFlip

SpecFail == InitPerm /\ [][NextFail]_vars

\* Tenant-role links being revoked, each role assigned in its own tenant, with the
\* bulk invalidation.
NextRole ==
  \/ NextRequest
  \/ \E u \in Users, r \in HRoleIds : AddDoctorToHospital(HRoleHospital[r], u, r)
  \/ \E l \in hospitalRolePermission : RevokeRoleLink(l)
  \/ \E r \in HRoleIds : InvalidateHospitalRoleCache(r, HRoleHospital[r])

SpecRole == InitPerm /\ [][NextRole]_vars

\* The invalidation functions of dependencies.py: there are these two.
InvalidationStep ==
  \/ \E u \in Users, h \in HospitalContexts : InvalidateUserPermissionFromCache(u, h)
  \/ \E r \in HRoleIds : InvalidateHospitalRoleCache(r, HRoleHospital[r])

\* Global-role links being revoked, with every invalidation the code has.
NextGlobal ==
  \/ NextRequest
  \/ \E u \in Users, r \in HRoleIds : AddDoctorToHospital(HRoleHospital[r], u, r)
  \/ \E l \in rolePermission : RevokeGlobalRoleLink(l)
  \/ InvalidationStep

SpecGlobal == InitPerm /\ [][NextGlobal]_vars

\* get_user_permissions calls interleaved at their awaits with grants and
\* invalidations.
NextRace ==
  \/ \E u \in Users, h \in HospitalContexts : BeginGetUserPermissions(u, h)
  \/ \E call \in inflight : FinishGetUserPermissions(call)
  \/ \E user \in LoginClaims, h \in HospitalContexts, g \in GuardConfigs : PermissionGuard(user, h, g)
  \/ \E u \in Users, name \in GrantNames, sc \in GrantScopes : AddGrant(u, name, sc)
  \/ \E u \in Users, h \in HospitalContexts : InvalidateUserPermissionFromCache(u, h)

SpecRace == InitPerm /\ [][NextRace]_vars

\* User ids of which one is a decimal prefix of the other, and tenant contexts
\* likewise.
KeyUsers == {1, 10}
KeyContexts == {NoHospital, 1, 10}

\* The user claims of tokens of those users (no global role).
KeyClaims == {[user_id |-> u, global_role |-> NoGlobalRole] : u \in KeyUsers}

\* Guards as routers can declare them: the same names in either order, a name that
\* needs normalising, and a name that holds the separator of the key.
KeyGuardConfigs ==
  {[permissions |-> perms, allow_super_admin |-> FALSE] :
     perms \in {<< <<"a">> >>, << <<"b">> >>, << <<"a">>, <<"b">> >>, << <<"b">>, <<"a">> >>,
                << <<" ","A">> >>, << <<"a",",","b">> >>}}

\* Requests of both users in every context, and the invalidation of user 1.
NextKeys ==
  \/ \E u \in KeyUsers, h \in KeyContexts : GetUserPermissions(u, h)
  \/ \E user \in KeyClaims, h \in KeyContexts, g \in KeyGuardConfigs : PermissionGuard(user, h, g)
  \/ \E h \in KeyContexts : InvalidateUserPermissionFromCache(1, h)

\* The store holds users 1 and 10, neither with a global role, and no grants.
InitKeys ==
  /\ now = 0
  /\ writes = 0
  /\ redisUp = TRUE
  /\ redisJti = EmptyDict
  /\ memoryBlocklist = EmptyDict
  /\ tokens = {}
  /\ nextJti = 1
  /\ revoked = {}
  /\ loggedOut = {}
  /\ resp = NoResp
  /\ globalRoleOf = [u \in KeyUsers |-> NoRole]
  /\ hospitalUserRoles = {}
  /\ userPermissions = {}
  /\ hospitalRolePermission = InitialHospitalRolePermission
  /\ rolePermission = InitialRolePermission
  /\ InitFlightVars
  /\ InitPermVars

SpecKeys == InitKeys /\ [][NextKeys]_vars

\* A whole request to a guarded endpoint: AccessTokenBearer, get_current_user, then
\* require_permissions(...).dependency with the token's user claims; a failed bearer
\* check raises 401 and the dependency is not entered.  reached lists the steps that
\* ran.
GuardedRequest(tok, hospital_id, g) ==
  LET status == BearerStatus("access", tok)
      out == GuardOutcome(tok.user, hospital_id, g)
      hit == CacheHit(permsCache, PermsKey(tok.user.user_id, hospital_id))
      n == IF status # 200 THEN 0 ELSE IF ~out.resolved THEN 0 ELSE IF hit THEN 1 ELSE 2
  IN /\ cacheWrites + n <= MaxCacheWrites
     /\ memoryBlocklist' = BearerMemory(tok)
     /\ cacheWrites' = cacheWrites + n
     /\ IF status = 200
        THEN /\ permcheckCache' = GuardPermcheckCache(tok.user, hospital_id, g)
             /\ permsCache' = IF out.resolved
                              THEN GetUserPermissionsCache(tok.user.user_id, hospital_id)
                              ELSE permsCache
             /\ IF out.resolved THEN Resolved(tok.user.user_id, hospital_id)
                                ELSE UNCHANGED freshGrants
             /\ resp' = [op |-> "guarded", status |-> out.status,
                         reached |-> BearerReached("access", tok) \cup {"permission"}]
        ELSE /\ UNCHANGED <<permcheckCache, permsCache, freshGrants>>
             /\ resp' = [op |-> "guarded", status |-> status,
                         reached |-> BearerReached("access", tok)]
     /\ UNCHANGED <<now, redisUp, redisJti, tokens, nextJti, revoked, loggedOut, flightVars,
                    storeVars, writes, addedGrants, lastRemoval>>

\* The same request up to the return of get_current_user: the token was decoded (its
\* exp compared with the clock), the blocklist was awaited, the claims were read; the
\* request is suspended at the first await of the dependency
BeginGuardedRequest(req, tok, hospital_id, g) ==
  /\ ~\E p \in pending : p.req = req
  /\ BearerStatus("access", tok) = 200
  /\ pending' = pending \cup {[req |-> req, tok |-> tok, hospital_id |-> hospital_id, g |-> g]}
  /\ memoryBlocklist' = BearerMemory(tok)
  /\ resp' = [op |-> "guard_entered", req |-> req]
  /\ UNCHANGED <<now, redisUp, redisJti, tokens, nextJti, revoked, loggedOut, storeVars,
                 permVars, dbUp, inflight, exchanged>>

\* the rest of that request: the dependency runs with the claims it was given; the
\* token is not decoded again
FinishGuardedRequest(p) ==
  LET user == p.tok.user
      out == GuardOutcome(user, p.hospital_id, p.g)
      hit == CacheHit(permsCache, PermsKey(user.user_id, p.hospital_id))
      n == IF ~out.resolved THEN 0 ELSE IF hit THEN 1 ELSE 2
  IN /\ p \in pending
     /\ cacheWrites + n <= MaxCacheWrites
     /\ cacheWrites' = cacheWrites + n
     /\ permcheckCache' = GuardPermcheckCache(user, p.hospital_id, p.g)
     /\ permsCache' = IF out.resolved
                      THEN GetUserPermissionsCache(user.user_id, p.hospital_id)
                      ELSE permsCache
     /\ IF out.resolved THEN Resolved(user.user_id, p.hospital_id) ELSE UNCHANGED freshGrants
     /\ pending' = pending \ {p}
     /\ resp' = [op |-> "guard_done", status |-> out.status, req |-> p.req]
     /\ UNCHANGED <<authVars, storeVars, writes, addedGrants, lastRemoval, dbUp, inflight,
                    exchanged>>

\* Time passes, past the expiry of access tokens: Redis drops the keys of both
\* uses that reached their expiry.
RequestTick ==
  /\ now + RequestTickStep <= MaxRequestTime
  /\ now' = now + RequestTickStep
  /\ redisJti' = ExpireKeys(redisJti, now')
  /\ permsCache' = ExpireEntries(permsCache, now')
  /\ permcheckCache' = ExpireEntries(permcheckCache, now')
  /\ resp' = NoResp
  /\ UNCHANGED <<redisUp, memoryBlocklist, tokens, nextJti, revoked, loggedOut, storeVars,
                 writes, cacheWrites, addedGrants, freshGrants, lastRemoval, flightVars>>

\* The guarded requests of one session (one login, at any time), with logout, while
\* time passes and Redis comes and goes.
NextRequests ==
  \/ \E u \in Users : tokens = {} /\ Login(u, TRUE)
  \/ \E tok \in Presentable : Logout(tok)
  \/ \E tok \in Presentable, h \in HospitalContexts, g \in GuardConfigs :
       GuardedRequest(tok, h, g)
  \/ RequestTick
  \/ RedisFlip

SpecRequests == InitPerm /\ [][NextRequests]_vars

\* Guarded requests that are suspended between the bearer check and the permission
\* check while time passes.
NextInflight ==
  \/ \E u \in Users : Login(u, TRUE)
  \/ \E tok \in Presentable, h \in HospitalContexts, g \in GuardConfigs :
       BeginGuardedRequest(1, tok, h, g)
  \/ \E p \in pending : FinishGuardedRequest(p)
  \/ RequestTick

SpecInflight == InitPerm /\ [][NextInflight]_vars

\* The cache tiers over time, with direct grants coming and going and no invalidation.
NextCache ==
  \/ NextRequest
  \/ \E u \in Users, name \in GrantNames, sc \in GrantScopes : AddGrant(u, name, sc)
  \/ \E row \in userPermissions : RemoveGrant(row)
  \/ PermTick

SpecCache == InitPerm /\ [][NextCache]_vars

(***************************************************************************)
(* Claims on the revocation registry (SpecAuth).                           *)
(***************************************************************************)
\* The issued token that carries jti j.
TokenOf(j) == CHOOSE t \in tokens : t.jti = j

\* C1: once logout has revoked a token's jti, every later request presenting that
\* token is answered 401 by TokenBearer (the token being still signed and unexpired
\* does not help it).
C1_RevokedTokenRejected ==
  (resp.op \in {"request", "logout", "refresh"} /\ resp.wasLoggedOut) => resp.status = 401

\* C9: from its revocation until the exp of the token that carries it, a revoked jti
\* is reported by token_in_blocklist.
C9_RevokedUntilExpiry ==
  \A j \in revoked \cap IssuedJtis : now < TokenOf(j).exp => TokenInBlocklist(j)

\* C10: revoking again is harmless: revoke_jti always completes (also for a jti that
\* is already revoked or was never issued), the jti it was given is reported revoked
\* right after the call, an entry that was visible stays visible, and no other jti
\* changes its status.
C10_RevokeIdempotent ==
  [][ (resp'.op = "revoke" =>
         /\ resp'.status = 200
         /\ TokenInBlocklistIn(redisUp', redisJti', memoryBlocklist', now', resp'.jti)
         /\ \A k \in (Jtis \cup {UnknownJti}) \ {resp'.jti} :
              TokenInBlocklistIn(redisUp', redisJti', memoryBlocklist', now', k)
                = TokenInBlocklist(k))
      /\ (resp'.op \in {"logout", "refresh"} /\ resp'.status = 200 =>
            TokenInBlocklistIn(redisUp', redisJti', memoryBlocklist', now', resp'.jti)) ]_vars

\* C10 witness: revoke_jti has just run for a jti that had been revoked before and
\* the jti is still reported revoked.
C10_Witness ==
  resp.op = "revoke" /\ resp.wasRevoked /\ resp.jti \in IssuedJtis /\ TokenInBlocklist(resp.jti)

\* C11: an outage is never turned into allow: a request with a token whose jti is in
\* the Redis blocklist (it is rejected while Redis answers) is not accepted while
\* Redis is unreachable.
C11_UnavailableNeverAllows ==
  (/\ resp.op \in {"request", "logout", "refresh"}
   /\ ~redisUp
   /\ resp.jti \in DOMAIN redisJti
   /\ now < redisJti[resp.jti]) => resp.status = 401

\* C12: a token whose exp is not in the future is answered 401 by decode_token alone:
\* the blocklist lookup (and its purge of _memory_blocklist), verify_token_data and the
\* extraction of the claims are not reached.
C12_ExpiredRejectedAtVerification ==
  \A tok \in tokens, kind \in {"access", "refresh"} :
    tok.exp <= now =>
      /\ BearerStatus(kind, tok) = 401
      /\ BearerReached(kind, tok) = {"decode"}
      /\ BearerMemory(tok) = memoryBlocklist

\* C12 witness: an issued refresh token has just been presented at or after its exp
\* and was answered 401.
C12_Witness ==
  /\ resp.op \in {"request", "logout", "refresh"}
  /\ resp.status = 401
  /\ resp.jti \in IssuedJtis
  /\ TokenOf(resp.jti).refresh
  /\ TokenOf(resp.jti).exp <= now

\* C13: a request ends in one outcome; every authentication failure, a missing token
\* included, is a 401 and never a 403, and a guard answers 200 or 403, never 401.
C13_TerminalOutcomes ==
  /\ resp.op = "missing" => resp.status = 401
  /\ resp.op \in {"request", "logout", "refresh"} => resp.status \in {200, 401}
  /\ resp.op = "guard" => resp.status \in {200, 403}

\* C18: a refresh token that refresh_token_pair has exchanged is rejected with 401
\* when it is presented again.
C18_RefreshRotation ==
  \A tok \in tokens :
    (tok.refresh /\ tok.jti \in revoked) => BearerStatus("refresh", tok) = 401

\* C19: whenever the bearer accepts the refresh token, refresh_token_pair answers 200
\* and issues a new access token and a new refresh token, whether or not the write
\* of the old jti to Redis succeeds.
C19_RevocationNeverBlocksRefresh ==
  [][ \A tok \in Presentable :
        (RefreshToken(tok) /\ BearerStatus("refresh", tok) = 200) =>
          /\ resp'.status = 200
          /\ \E a \in tokens' \ tokens : ~a.refresh
          /\ \E r \in tokens' \ tokens : r.refresh ]_vars

\* C19 witness: a refresh has just succeeded while Redis was unreachable, the old jti
\* having gone to _memory_blocklist and not to Redis.
C19_Witness ==
  /\ resp.op = "refresh" /\ resp.status = 200
  /\ ~redisUp
  /\ resp.jti \notin DOMAIN redisJti
  /\ resp.jti \in DOMAIN memoryBlocklist

(***************************************************************************)
(* Claims on refresh exchanges under role changes (SpecRefresh).           *)
(***************************************************************************)
\* C20: every token a refresh exchange issues carries the user claims of the refresh
\* token that was exchanged, whatever the store says by then.
C20_RefreshReusesClaims ==
  [][ \A tok \in Presentable :
        RefreshToken(tok) => \A t \in tokens' \ tokens : t.user = tok.user ]_vars

\* C20 witness: a refresh has just issued tokens whose global_role claim is no longer
\* the one the store would give.
C20_Witness ==
  /\ resp.op = "refresh" /\ resp.status = 200
  /\ \E t \in tokens :
       /\ t.jti >= nextJti - 2
       /\ t.user.global_role # GlobalRoleClaim(t.user.user_id)

(***************************************************************************)
(* What the permission contract says a user holds, read off the store.     *)
(***************************************************************************)
NormalizeAll(names) == {NormalizePerm(p) : p \in names}

\* direct grants of the user with platform scope
PlatformGrantPerms(u) ==
  NormalizeAll({g.permission_name :
                  g \in {x \in userPermissions : x.user_id = u /\ x.scope = "platform"}})

\* permissions linked to the user's own global role
OwnGlobalRolePerms(u) ==
  IF globalRoleOf[u] \in RoleIds THEN NormalizeAll(RolePermissionNames[globalRoleOf[u]]) ELSE {}

\* direct grants of the user with tenant scope in tenant t
TenantGrantPerms(u, t) ==
  NormalizeAll({g.permission_name :
                  g \in {x \in userPermissions :
                           x.user_id = u /\ x.scope = "tenant" /\ x.hospital_id = t}})

\* permissions linked to the tenant roles the user holds in tenant t through
\* assignments whose active flag is `active`
AssignmentPerms(u, t, active) ==
  UNION {NormalizeAll(HospitalRolePermissionNames[a.hospital_role_id]) :
           a \in {x \in hospitalUserRoles :
                    x.user_id = u /\ x.hospital_id = t /\ x.is_active = active}}

\* the four-way union of the contract
ExpectedPermissions(u, t) ==
  PlatformGrantPerms(u) \cup OwnGlobalRolePerms(u) \cup TenantGrantPerms(u, t)
    \cup AssignmentPerms(u, t, TRUE)

\* what the user holds only through a grant or an active tenant role in tenant t1,
\* seen from tenant t2
OnlyInTenant(u, t1, t2) ==
  (TenantGrantPerms(u, t1) \cup AssignmentPerms(u, t1, TRUE))
    \ (PlatformGrantPerms(u) \cup OwnGlobalRolePerms(u)
         \cup TenantGrantPerms(u, t2) \cup AssignmentPerms(u, t2, TRUE))

\* what the user could reach in tenant t only through an inactive assignment
OnlyInactive(u, t) ==
  AssignmentPerms(u, t, FALSE)
    \ (ExpectedPermissions(u, t) \cup NormalizeAll(DirectQ(u)) \cup NormalizeAll(GlobalQ))

\* the claims carry a global role whose name trims and lower-cases to "superadmin"
NormalizesToSuperadmin(user) ==
  /\ user.global_role.role_id # NoRole
  /\ Lower(Strip(user.global_role.role_name)) = SUPERADMIN

(***************************************************************************)
(* Claims on permission resolution and the guard (SpecPerm).               *)
(***************************************************************************)
\* C2: tenant isolation: what user U holds only through a grant or tenant role in
\* tenant T1 is not in the set get_user_permissions(U, T2) returns for T2 # T1,
\* from the store or from the cache.
C2_TenantIsolation ==
  \A u \in Users, t1 \in Hospitals, t2 \in Hospitals :
    t1 # t2 => OnlyInTenant(u, t1, t2) \cap GetUserPermissionsResult(u, t2) = {}

\* C3 as stated: claims whose global role normalizes to "superadmin" pass every
\* guard that require_permissions builds, whatever the guard requires.
C3_SuperadminPassesEveryGuard ==
  \A user \in UserClaims, h \in HospitalContexts, g \in GuardConfigs :
    NormalizesToSuperadmin(user) => GuardOutcome(user, h, g).status = 200

\* C3, amended: claims whose global role normalizes to "superadmin" pass every guard
\* that require_permissions builds with allow_super_admin=True (the default),
\* whatever the guard requires, without the resolution engine being called.
C3_SuperadminBypass ==
  \A user \in UserClaims, h \in HospitalContexts, g \in GuardConfigs :
    (g.allow_super_admin /\ NormalizesToSuperadmin(user)) =>
      /\ GuardOutcome(user, h, g).status = 200
      /\ GuardOutcome(user, h, g).bypass
      /\ ~GuardOutcome(user, h, g).resolved

\* C3 witness: a guard has just let a superadmin through on the bypass while nobody
\* holds what a bypassing guard requires.
C3_Witness ==
  /\ resp.op = "guard" /\ resp.bypass /\ resp.status = 200
  /\ \A u \in Users, h \in HospitalContexts, g \in GuardConfigs :
       g.allow_super_admin => Required(g.permissions) \cap QueryPermissions(u, h) = {}

\* C4: on a cache miss get_user_permissions(U, T) computes exactly U's platform
\* grants, the permissions of U's own global role, U's tenant grants for T and the
\* permissions of the tenant roles U actively holds in T.
C4_ExactUnion ==
  \A u \in Users, t \in Hospitals : QueryPermissions(u, t) = ExpectedPermissions(u, t)

\* C5: what is reachable only through an inactive assignment of U in T is absent
\* from get_user_permissions(U, T), from the tenant group of T in the claims snapshot
\* and from the tenant-role list of the claims.
C5_InactiveContributesNothing ==
  \A u \in Users, t \in Hospitals :
    /\ OnlyInactive(u, t) \cap QueryPermissions(u, t) = {}
    /\ \A grp \in BuildPermissionsSnapshot(u) :
         (grp.scope = "tenant" /\ grp.hospital_id = t) =>
           OnlyInactive(u, t) \cap NormalizeAll(grp.permissions) = {}
    /\ \A a \in hospitalUserRoles :
         (a.user_id = u /\ a.hospital_id = t /\ ~a.is_active) =>
           [hospital_id |-> t, hospital_role_id |-> a.hospital_role_id]
             \notin GetHospitalRolesForUser(u)

\* C6: for a user with no global role and no direct grant whose one assignment is an
\* active tenant role in T, get_user_permissions(U, T) computes exactly that role's
\* permissions and get_user_permissions(U, None) computes the empty set.
C6_GlobalContextExcludesTenant ==
  \A u \in Users, a \in hospitalUserRoles :
    (/\ globalRoleOf[u] = NoRole
     /\ DirectQ(u) = {}
     /\ {x \in hospitalUserRoles : x.user_id = u} = {a}
     /\ a.is_active) =>
      /\ QueryPermissions(u, a.hospital_id)
           = NormalizeAll(HospitalRolePermissionNames[a.hospital_role_id])
      /\ QueryPermissions(u, NoHospital) = {}

\* C7: a direct grant added for (U, T) and followed by
\* invalidate_user_permission_from_cache(U, T) is in the set the next
\* get_user_permissions(U, T) returns, also when a set without it had been cached.
C7_InvalidationCorrect ==
  \A f \in freshGrants :
    NormalizePerm(f.permission_name) \in GetUserPermissionsResult(f.user_id, f.hospital_id)

\* C7 witness: get_user_permissions has just run as the next call after the
\* invalidation of a grant that was added while a set without it was cached.
C7_Witness ==
  /\ resp.op = "resolve"
  /\ ~resp.hit
  /\ \E f \in resp.expected : f.stale

\* C16: invalidate_user_permission_from_cache(U, scope) deletes U's permission set of
\* that scope and every cached decision of U, in every tenant context and for every
\* required set.
C16_InvalidationDeletesAllDecisions ==
  [][ \A u \in Users, h \in HospitalContexts :
        InvalidateUserPermissionFromCache(u, h) =>
          /\ PermsKey(u, h) \notin DOMAIN permsCache'
          /\ \A k \in DOMAIN permcheckCache' : k[1] # u ]_vars

\* C17: add_doctor_to_hospital and remove_doctor_from_hospital run the invalidation
\* of (user, tenant) within the operation: when they return, the cache tiers are
\* what invalidate_user_permission_from_cache(user, tenant) leaves.
C17_WritesInvalidate ==
  [][ \A h \in Hospitals, u \in Users :
        ((\E r \in HRoleIds : AddDoctorToHospital(h, u, r)) \/ RemoveDoctorFromHospital(h, u)) =>
          /\ permsCache' = InvalidatedPerms(permsCache, u, h)
          /\ permcheckCache' = InvalidatedPermcheck(permcheckCache, u, h) ]_vars

(***************************************************************************)
(* Claims on tenant-role link changes (SpecRole).                          *)
(***************************************************************************)
\* the permissions a tenant role was linked to at provisioning and is not any more
RemovedLinks(r) ==
  NormalizeAll({l.permission_name :
                  l \in {x \in InitialHospitalRolePermission \ hospitalRolePermission :
                           x.hospital_role_id = r}})

\* C15: once invalidate_hospital_role_cache(role, tenant) has completed, no guard
\* check of a user with an active assignment to the role is still authorized by a
\* permission the role has lost: in every context the check is decided from the
\* new links.
C15_RoleInvalidationComplete ==
  [][ \A r \in HRoleIds :
        InvalidateHospitalRoleCache(r, HRoleHospital[r]) =>
          \A a \in hospitalUserRoles, user \in LoginClaims,
             c \in HospitalContexts, g \in GuardConfigs :
            (/\ a.hospital_role_id = r /\ a.is_active /\ user.user_id = a.user_id
             /\ ~GuardOutcome(user, c, g).bypass'
             /\ GuardOutcome(user, c, g).status' = 200) =>
              \A p \in RemovedLinks(r)' \cap Required(g.permissions) :
                p \in QueryPermissions(a.user_id, c)' ]_vars

(***************************************************************************)
(* Claims on the cache tiers over time (SpecCache).                        *)
(***************************************************************************)
\* C8: with no invalidation run, a guard check made more than CACHE_TTL after the
\* last removal from the store is decided as the store stands: it does not
\* authorize what the store no longer gives.
C8_StalenessBound ==
  \A user \in UserClaims, h \in HospitalContexts, g \in GuardConfigs :
    (/\ lastRemoval >= 0
     /\ now > lastRemoval + CACHE_TTL
     /\ ~GuardOutcome(user, h, g).bypass
     /\ GuardOutcome(user, h, g).status = 200) =>
      Required(g.permissions) \subseteq QueryPermissions(user.user_id, h)

\* C14: resolution is a function of the store: over any step that leaves the store
\* as it is (a call that fills the cache, an expiry), the set
\* get_user_permissions(U, T) returns is the same before and after.
C14_ResolutionPure ==
  [][ UNCHANGED storeVars =>
        \A u \in Users, t \in Hospitals :
          GetUserPermissionsResult(u, t)' = GetUserPermissionsResult(u, t) ]_vars

(***************************************************************************)
(* Claims on the tokens issued and on the fallback blocklist (SpecAuth).   *)
(***************************************************************************)
\* C24: the two tokens of every issued pair carry user claims, iat, exp and a jti,
\* the access token has refresh = false and the refresh token refresh = true, and
\* the refresh token's lifetime exp - iat is longer than the access token's.
C24_RefreshOutlivesAccess ==
  \A a \in tokens, r \in tokens :
    (~a.refresh /\ r.jti = a.jti + 1) =>
      /\ r.refresh
      /\ r.user = a.user /\ r.iat = a.iat
      /\ r.exp - r.iat > a.exp - a.iat

\* C25: the user claims of every token issued at login hold the global role, the
\* list of the user's tenant-role assignments and the grouped permission snapshot.
C25_LoginClaimsComplete ==
  \A tok \in tokens :
    {"global_role", "hospital_roles", "permissions"} \subseteq DOMAIN tok.user

\* C29: a jti that is recorded in the in-process fallback map and has not reached
\* its expiry there is reported as revoked by token_in_blocklist while Redis is
\* reachable.
C29_FallbackRevocationSurvives ==
  \A j \in DOMAIN memoryBlocklist :
    (redisUp /\ memoryBlocklist[j] >= now) => TokenInBlocklist(j)

(***************************************************************************)
(* Claims on the spelling of permission names (SpecPerm).                  *)
(***************************************************************************)
\* C23: every permission name is trimmed and lower-cased in the sets
\* get_user_permissions returns and caches, in the required set of every guard,
\* and in the permission groups of the token claims snapshot.
C23_NamesNormalizedEverywhere ==
  /\ \A u \in Users, h \in HospitalContexts :
       \A p \in GetUserPermissionsResult(u, h) : p = NormalizePerm(p)
  /\ \A k \in DOMAIN permsCache : \A p \in permsCache[k].value : p = NormalizePerm(p)
  /\ \A g \in GuardConfigs : \A p \in Required(g.permissions) : p = NormalizePerm(p)
  /\ \A u \in Users : \A grp \in BuildPermissionsSnapshot(u) :
       \A p \in grp.permissions : p = NormalizePerm(p)

(***************************************************************************)
(* Claims on failures of the stores (SpecFail).                            *)
(***************************************************************************)
\* C21: when the database is unreachable, a get_user_permissions call that has to
\* query it, and a guard check that has to resolve, end in an error, and the call
\* writes neither a permission-set entry nor a decision entry.
C21_StoreFailurePropagates ==
  [][ /\ \A u \in Users, h \in HospitalContexts :
           (/\ GetUserPermissions(u, h)
            /\ redisUp /\ ~dbUp /\ ~CacheHit(permsCache, PermsKey(u, h))) =>
             /\ resp'.op = "resolve_error"
             /\ permsCache' = permsCache /\ permcheckCache' = permcheckCache
      /\ \A user \in LoginClaims, h \in HospitalContexts, g \in GuardConfigs :
           (/\ PermissionGuard(user, h, g)
            /\ redisUp /\ ~dbUp /\ ~(g.allow_super_admin /\ IsSuperAdmin(user))
            /\ ~CacheHit(permcheckCache, PermcheckKey(user.user_id, h, Required(g.permissions)))
            /\ ~CacheHit(permsCache, PermsKey(user.user_id, h))) =>
             /\ resp'.status \notin {200, 403}
             /\ permsCache' = permsCache /\ permcheckCache' = permcheckCache ]_vars

\* C21 witness: a guard check has just failed with Redis reachable and the database
\* unreachable.
C21_Witness ==
  /\ resp.op = "guard" /\ resp.status = 500
  /\ redisUp /\ ~dbUp

\* C22: when Redis is unreachable and the database is reachable,
\* get_user_permissions returns a set and the guard decides as on a cache miss:
\* 200 when the store gives every required permission, 403 otherwise.
C22_CacheReadFallsBack ==
  [][ /\ \A u \in Users, h \in HospitalContexts :
           (GetUserPermissions(u, h) /\ ~redisUp /\ dbUp) => resp'.op = "resolve"
      /\ \A user \in LoginClaims, h \in HospitalContexts, g \in GuardConfigs :
           (/\ PermissionGuard(user, h, g)
            /\ ~redisUp /\ dbUp /\ ~(g.allow_super_admin /\ IsSuperAdmin(user))) =>
             resp'.status = IF Required(g.permissions) \subseteq QueryPermissions(user.user_id, h)
                            THEN 200 ELSE 403 ]_vars

(***************************************************************************)
(* Claims on the cache-aside protocol (SpecCache).                         *)
(***************************************************************************)
\* C30: a get_user_permissions(U, T) call that hits returns the cached set, whatever
\* the store holds, and writes nothing to either tier; a call that misses returns
\* the set resolved from the store and writes exactly one entry, under the key of
\* (U, T), holding that set and expiring CACHE_TTL later.
C30_CacheAside ==
  [][ \A u \in Users, h \in HospitalContexts :
        (GetUserPermissions(u, h) /\ ~GetUserPermissionsRaises(u, h)) =>
          /\ permcheckCache' = permcheckCache
          /\ IF CacheHit(permsCache, PermsKey(u, h))
             THEN /\ permsCache' = permsCache
                  /\ GetUserPermissionsResult(u, h) = permsCache[PermsKey(u, h)].value
             ELSE /\ DOMAIN permsCache' = DOMAIN permsCache \cup {PermsKey(u, h)}
                  /\ \A k \in DOMAIN permsCache \ {PermsKey(u, h)} : permsCache'[k] = permsCache[k]
                  /\ permsCache'[PermsKey(u, h)].expiry = now + CACHE_TTL
                  /\ permsCache'[PermsKey(u, h)].value = GetUserPermissionsResult(u, h)
                  /\ GetUserPermissionsResult(u, h) = QueryPermissions(u, h) ]_vars

\* C30 witness: a call has just hit, later than the entry was written, an entry
\* whose set differs from what the store gives now.
C30_Witness ==
  /\ resp.op = "resolve" /\ resp.hit /\ now > 0
  /\ \E k \in DOMAIN permsCache :
       /\ CacheHit(permsCache, k)
       /\ permsCache[k].expiry < now + CACHE_TTL
       /\ permsCache[k].value # QueryPermissions(k[1], k[2])

(***************************************************************************)
(* Claims on global-role link changes (SpecGlobal).                        *)
(***************************************************************************)
\* the permissions a global role was linked to at provisioning and is not any more
RemovedGlobalLinks(r) ==
  NormalizeAll({l.permission_name :
                  l \in {x \in InitialRolePermission \ rolePermission : x.role_id = r}})

\* C26: the code has an invalidation for global-role link changes: once a call of
\* an invalidation function has completed, no user holding a global role has a cached
\* permission set, in any context, that still gives a permission the role has lost
\* and the store no longer gives, nor a cached authorization that rests on one.
C26_GlobalRoleInvalidationPath ==
  [][ InvalidationStep =>
        \A u \in Users, c \in HospitalContexts :
          globalRoleOf[u] \in RoleIds =>
            /\ CacheHit(permsCache, PermsKey(u, c))' =>
                 (permsCache[PermsKey(u, c)].value \cap RemovedGlobalLinks(globalRoleOf[u]))'
                   \subseteq QueryPermissions(u, c)'
            /\ \A g \in GuardConfigs :
                 LET key == PermcheckKey(u, c, Required(g.permissions))
                 IN (CacheHit(permcheckCache, key)' /\ permcheckCache'[key].value.allowed) =>
                      (Required(g.permissions) \cap RemovedGlobalLinks(globalRoleOf[u]))'
                        \subseteq QueryPermissions(u, c)' ]_vars

(***************************************************************************)
(* Claims on calls interleaved at their awaits (SpecRace).                 *)
(***************************************************************************)
\* the grant rows whose invalidation has completed
InvalidatedGrants ==
  {g \in userPermissions :
     ~\E a \in addedGrants :
        /\ a.user_id = g.user_id /\ a.hospital_id = g.hospital_id
        /\ a.permission_name = g.permission_name}

\* C27: once the invalidation that follows the adding of a grant for (U, T) has
\* returned and no get_user_permissions call is in flight, no cached permission set
\* of (U, T) lacks the grant and no cached decision of (U, T) reports it missing.
C27_NoStaleEntryAfterInvalidation ==
  inflight = {} =>
    \A g \in InvalidatedGrants :
      /\ CacheHit(permsCache, PermsKey(g.user_id, g.hospital_id)) =>
           NormalizePerm(g.permission_name) \in permsCache[PermsKey(g.user_id, g.hospital_id)].value
      /\ \A c \in GuardConfigs :
           LET key == PermcheckKey(g.user_id, g.hospital_id, Required(c.permissions))
           IN CacheHit(permcheckCache, key) =>
                NormalizePerm(g.permission_name) \notin permcheckCache[key].value.missing

(***************************************************************************)
(* Claims on refresh requests interleaved at their awaits                  *)
(* (SpecRefreshRace).                                                      *)
(***************************************************************************)
\* C28: of the refresh requests that present one refresh token, at most one is
\* given a new token pair, however the requests interleave.
C28_RefreshExchangedOnce ==
  \A a \in exchanged, b \in exchanged : a.jti = b.jti => a.req = b.req

(***************************************************************************)
(* Claims on token types and on the frame of logout (SpecAuth).            *)
(***************************************************************************)
\* C35: no token is accepted by both AccessTokenBearer and RefreshTokenBearer, a
\* token that decodes and is not listed as revoked is accepted by exactly one of
\* them, a token with refresh = true gets 401 where an access token is required,
\* and a token with refresh = false gets 401 at the refresh endpoint.
C35_TokenTypesExclusive ==
  \A tok \in Presentable :
    /\ ~(BearerStatus("access", tok) = 200 /\ BearerStatus("refresh", tok) = 200)
    /\ (DecodeOk(tok) /\ ~TokenInBlocklist(tok.jti)) =>
         (BearerStatus("access", tok) = 200 \/ BearerStatus("refresh", tok) = 200)
    /\ tok.refresh => BearerStatus("access", tok) = 401
    /\ ~tok.refresh => BearerStatus("refresh", tok) = 401

\* C35 witness: an access token that decodes and is not revoked has just been
\* presented at the refresh endpoint and was answered 401.
C35_Witness ==
  /\ resp.op = "refresh" /\ resp.status = 401
  /\ \E tok \in tokens :
       /\ tok.jti = resp.jti /\ ~tok.refresh
       /\ DecodeOk(tok) /\ ~TokenInBlocklist(tok.jti)
       /\ BearerStatus("access", tok) = 200

\* C38: a logout changes the revocation status of no jti other than the presented
\* token's, and the answer RefreshTokenBearer gives to every other token is the
\* same after it as before.
C38_LogoutFrame ==
  [][ \A tok \in Presentable :
        Logout(tok) =>
          /\ \A j \in (1..(MaxJti + 1)) \ {tok.jti} : TokenInBlocklist(j)' = TokenInBlocklist(j)
          /\ \A r \in tokens :
               r.jti # tok.jti => BearerStatus("refresh", r)' = BearerStatus("refresh", r) ]_vars

\* C38 witness: the refresh token issued together with a logged-out access token
\* has just been exchanged for a new pair.
C38_Witness ==
  /\ resp.op = "refresh" /\ resp.status = 200
  /\ (resp.jti - 1) \in loggedOut
  /\ \E a \in tokens, r \in tokens :
       /\ ~a.refresh /\ r.refresh /\ r.jti = resp.jti /\ a.jti = r.jti - 1
       /\ a.iat = r.iat /\ a.user = r.user

(***************************************************************************)
(* Claims on the fallback registry (SpecFallback).                         *)
(***************************************************************************)
\* C33: the in-process map changes only in steps taken while Redis is unreachable,
\* and while Redis is reachable the answer of token_in_blocklist is that of Redis
\* alone; a jti revoked while Redis is unreachable is stored with the expiry
\* now + JTI_EXPIRY; while Redis is unreachable a jti is reported revoked exactly
\* when the map holds it with an expiry that is not in the past; and a lookup that
\* finds an entry past its expiry removes it.
C33_FallbackRegistry ==
  [][ /\ redisUp => memoryBlocklist' = memoryBlocklist
      /\ \A j \in 1..NumFallbackJtis :
           /\ redisUp => (TokenInBlocklist(j) <=> (j \in DOMAIN redisJti /\ now < redisJti[j]))
           /\ ~redisUp =>
                (TokenInBlocklist(j) <=> (j \in DOMAIN memoryBlocklist /\ now <= memoryBlocklist[j]))
           /\ (RevokeJti(j) /\ ~redisUp) =>
                /\ redisJti' = redisJti
                /\ memoryBlocklist' = Put(memoryBlocklist, j, now + JTI_EXPIRY)
           /\ (LookupJti(j) /\ ~redisUp) =>
                /\ (j \in DOMAIN memoryBlocklist /\ memoryBlocklist[j] < now) =>
                     (~resp'.result /\ memoryBlocklist' = Del(memoryBlocklist, j))
                /\ ~(j \in DOMAIN memoryBlocklist /\ memoryBlocklist[j] < now) =>
                     memoryBlocklist' = memoryBlocklist ]_vars

\* C33 witness: with Redis unreachable, a lookup has just found an entry past its
\* expiry, answered "not revoked" and removed it.
C33_Witness ==
  /\ resp.op = "lookup" /\ resp.expired /\ ~resp.result
  /\ ~redisUp
  /\ resp.jti \notin DOMAIN memoryBlocklist

(***************************************************************************)
(* Claims on the claims snapshot (SpecPerm).                               *)
(***************************************************************************)
\* C37: build_permissions_snapshot returns a platform group exactly when the user
\* has a platform-scope grant or a global-role permission, holding their union, and
\* one group for each tenant in which the user has a tenant-scope grant or a
\* permission of a tenant role the user holds there, holding their union (names
\* compared in normalised form); nothing of another tenant is in a tenant's group.
C37_SnapshotGroups ==
  \A u \in Users :
    LET snap == BuildPermissionsSnapshot(u)
        platform == PlatformGrantPerms(u) \cup OwnGlobalRolePerms(u)
    IN /\ Cardinality({g \in snap : g.scope = "platform"}) = IF platform = {} THEN 0 ELSE 1
       /\ \A g \in snap : g.scope = "platform" => NormalizeAll(g.permissions) = platform
       /\ \A t \in Hospitals :
            LET tenant == TenantGrantPerms(u, t) \cup AssignmentPerms(u, t, TRUE)
                groups == {g \in snap : g.scope = "tenant" /\ g.hospital_id = t}
            IN /\ Cardinality(groups) = IF tenant = {} THEN 0 ELSE 1
               /\ \A g \in groups : NormalizeAll(g.permissions) = tenant

(***************************************************************************)
(* Claims on the guard's decisions (SpecCache).                            *)
(***************************************************************************)
\* C31: a guard check that is not bypassed and misses the decision cache answers 200
\* exactly when every required permission is in get_user_permissions(U, T) and 403
\* otherwise, with the missing permissions being the required ones not found, and
\* caches allowed = (missing is empty) with the missing set for CACHE_TTL; a check
\* that hits answers as the cached decision says and leaves both tiers as they are.
C31_GuardDecision ==
  [][ \A user \in LoginClaims, h \in HospitalContexts, g \in GuardConfigs :
        (/\ resp'.op = "guard"
         /\ PermissionGuard(user, h, g)
         /\ ~(g.allow_super_admin /\ IsSuperAdmin(user))
         /\ ~GuardRaises(user, h, g)) =>
          LET required == Required(g.permissions)
              key == PermcheckKey(user.user_id, h, required)
              missing == required \ GetUserPermissionsResult(user.user_id, h)
          IN IF CacheHit(permcheckCache, key)
             THEN /\ resp'.status = IF permcheckCache[key].value.allowed THEN 200 ELSE 403
                  /\ GuardOutcome(user, h, g).missing = permcheckCache[key].value.missing
                  /\ permsCache' = permsCache
                  /\ permcheckCache' = permcheckCache
             ELSE /\ resp'.status = IF missing = {} THEN 200 ELSE 403
                  /\ GuardOutcome(user, h, g).missing = missing
                  /\ permcheckCache' =
                       Put(permcheckCache, key,
                           [value |-> [allowed |-> missing = {}, missing |-> missing],
                            expiry |-> now + CACHE_TTL]) ]_vars

\* C31 witness: a guard check has just answered 403 without writing a decision (every
\* cached decision was written at an earlier instant): it repeated a cached denial.
C31_Witness ==
  /\ resp.op = "guard" /\ resp.status = 403 /\ ~resp.bypass
  /\ DOMAIN permcheckCache # {}
  /\ \A k \in DOMAIN permcheckCache : permcheckCache[k].expiry < now + CACHE_TTL

(***************************************************************************)
(* Claims on the cache keys (SpecKeys).                                    *)
(***************************************************************************)
\* the Redis key of the decision of guard g for user u in context h
DecisionKey(u, h, g) == PermcheckKeyString(PermcheckKey(u, h, Required(g.permissions)))

C40_InvalidationFrame ==
  [][ /\ \A u \in KeyUsers, h \in KeyContexts :
           (resp'.op = "invalidate" /\ InvalidateUserPermissionFromCache(u, h)) =>
             /\ permsCache' =
                  [k \in DOMAIN permsCache \ {PermsKey(u, h)} |-> permsCache[k]]
             /\ permcheckCache' =
                  [k \in {x \in DOMAIN permcheckCache : ~(x[1] = u /\ x[2] = h)} |->
                     permcheckCache[k]]
             /\ UNCHANGED <<redisJti, memoryBlocklist>>
      /\ \A u1 \in KeyUsers, u2 \in KeyUsers, h1 \in KeyContexts, h2 \in KeyContexts :
           /\ (PermsKeyString(PermsKey(u1, h1)) = PermsKeyString(PermsKey(u2, h2)))
                => (u1 = u2 /\ h1 = h2)
           /\ ~GlobMatch(PermcheckPattern(u1, h1), PermsKeyString(PermsKey(u2, h2)))
           /\ \A g \in KeyGuardConfigs :
                GlobMatch(PermcheckPattern(u1, h1), DecisionKey(u2, h2, g))
                  <=> (u1 = u2 /\ h1 = h2) ]_vars

\* C40 witness: an invalidation of user 1 has just run and a cached set and a cached
\* decision of user 10 are still there.
C40_Witness ==
  /\ resp.op = "invalidate"
  /\ \E k \in DOMAIN permsCache : k[1] = 10
  /\ \E k \in DOMAIN permcheckCache : k[1] = 10

(***************************************************************************)
(* Claims on failed refresh exchanges (SpecRefreshFail).                   *)
(***************************************************************************)
\* C39: a refresh request that is not answered 200 leaves the registry (the Redis
\* keys, the in-process map and so the revocation status of every jti) as it was and
\* issues no token; when the bearer check passed and refresh_token_pair raised, the
\* presented refresh token is still not revoked.
C39_FailedRefreshRevokesNothing ==
  [][ \A tok \in Presentable :
        (resp'.op = "refresh" /\ resp'.status # 200 /\ RefreshToken(tok)) =>
          /\ UNCHANGED <<redisJti, memoryBlocklist, revoked, tokens, nextJti>>
          /\ \A j \in 1..MaxJti : TokenInBlocklist(j)' = TokenInBlocklist(j)
          /\ BearerStatus("refresh", tok) = 200 => ~TokenInBlocklist(tok.jti)' ]_vars

\* C39 witness: a refresh was answered 400 (the user was not found) and the presented
\* token's jti is not revoked.
C39_Witness ==
  /\ resp.op = "refresh" /\ resp.status = 400
  /\ resp.jti \notin revoked
  /\ ~TokenInBlocklist(resp.jti)

(***************************************************************************)
(* Claims on the steps of one request (SpecRequests).                      *)
(***************************************************************************)
\* The steps of a guarded request in the order of the code.
StepOrder == <<"decode", "blocklist", "verify", "claims", "permission">>

\* C32: the steps of a request run in the order decode, revocation check, (type
\* check,) claims, permission check and stop at the first failure: the steps that ran
\* are a prefix of that order, the request is answered 401 unless the permission
\* check was reached, a token that fails to decode causes no blocklist lookup, and a
\* request that fails before the permission check touches neither cache tier (no
\* resolution runs for it).
C32_StepsInOrder ==
  [][ \A tok \in Presentable, h \in HospitalContexts, g \in GuardConfigs :
        (resp'.op = "guarded" /\ GuardedRequest(tok, h, g)) =>
          LET reached == resp'.reached
          IN /\ \E n \in 1..Len(StepOrder) : reached = {StepOrder[i] : i \in 1..n}
             /\ ~DecodeOk(tok) => reached = {"decode"}
             /\ (DecodeOk(tok) /\ TokenInBlocklist(tok.jti)) => reached = {"decode", "blocklist"}
             /\ "blocklist" \notin reached => UNCHANGED memoryBlocklist
             /\ "permission" \notin reached =>
                  /\ resp'.status = 401
                  /\ UNCHANGED <<permsCache, permcheckCache, cacheWrites, freshGrants>>
             /\ "permission" \in reached <=> BearerStatus("access", tok) = 200 ]_vars

\* C32 witness: a request was stopped at the decode step while the in-process map
\* holds an entry and Redis is down, and both cache tiers hold entries.
C32_Witness ==
  /\ resp.op = "guarded" /\ resp.status = 401 /\ resp.reached = {"decode"}
  /\ ~redisUp /\ DOMAIN memoryBlocklist # {}
  /\ DOMAIN permcheckCache # {}

\* C36: a request is authorized only while its token is unexpired: when the
\* permission check of a suspended request ends with the request authorized, the
\* clock is still before the token's exp.
C36_NoAuthorizationAfterExp ==
  [][ \A p \in pending :
        (resp'.op = "guard_done" /\ FinishGuardedRequest(p) /\ resp'.status = 200) =>
          now < p.tok.exp ]_vars

====
